---- MODULE Spec2Model ----
(***************************************************************************)
(* Model of the UX-analytics backend: the event store (Database), the      *)
(* POST /events handler, the SSE change notifier, the metrics aggregation  *)
(* (getAggregatedMetrics) and the rules engine (RulesEngine).              *)
(*                                                                         *)
(* The store talks to SQLite through one shared node-sqlite3 connection.   *)
(* The connection's scheduling is modelled as the library performs it:     *)
(*   - a Database holds a queue of calls, a count of works in flight       *)
(*     (pending) and a flag (locked) set while an exclusive call runs;     *)
(*   - creating a Statement (db.prepare, db.run, db.all) schedules its     *)
(*     prepare on the Database; the call is exclusive when it is made      *)
(*     inside db.serialize(...);                                           *)
(*   - run/all/finalize on a Statement go to the Statement's own queue     *)
(*     and start as soon as the statement is prepared and idle.            *)
(***************************************************************************)
EXTENDS Integers, Sequences, FiniteSets, TLC

\* ------------------------------------------------------------------ bounds
NumBatches == 2      \* POST /events requests
MaxBatch == 2        \* events in one batch
MaxReads == 1        \* db.all reads issued by GET handlers
NumListeners == 2    \* GET /metrics/stream connections
MaxFaults == 1       \* failing store operations injected by the environment
MaxReadFaults == 2    \* failing reads of one GET /metrics
MaxDetFaults == 1     \* failing detectors of one GET /rules/issues
MaxAppend == 1       \* rows written while metrics or rules requests run
MaxClock == 1        \* hours the clock advances
MaxSessions == 4     \* sessions of a small page in the logs given to one detector
MaxClicks == 5       \* clicks of one session on one element in those logs
MaxCatalog == 6      \* texts of a suggestion array given to slice(0, 3)
MaxFeedback == 2     \* POST /rules/feedback requests
MaxCaptured == 11    \* events the snippet captures on one page
MaxHalfSeconds == 7  \* time the page stays open, in steps of 500 ms

Batches == 1..NumBatches
Reads == 1..MaxReads
Listeners == 1..NumListeners

\* Statements created on the shared connection.
Stmts == ({"INS", "BEGIN", "COMMIT"} \X Batches) \cup ({"SEL"} \X Reads)

VARIABLES
  req,        \* POST /events requests: body, promise of insertEvents, response
  table,      \* rows of the events table as the connection sees them
  txOpen,     \* the connection is inside BEGIN ... COMMIT
  txOwner,    \* the batch whose BEGIN opened the transaction (0: none)
  dbQueue,    \* Database: queued calls
  locked,     \* Database: an exclusive call is running
  stmt,       \* Statement objects: phase and queued run/all calls
  faults,     \* failures injected so far
  rd,         \* db.all reads: what each was issued after and what it returned
  sseClients, \* the listener registry
  conn,       \* each listener's connection
  written,    \* what was written to each listener's response
  pubs,       \* the publish calls, in order
  now,        \* the server's clock, in hours
  rules,      \* RulesEngine.rules: the thresholds of the five rules
  pick,       \* which row of a group SQLite reads a bare column from
  met,        \* the getAggregatedMetrics call of a GET /metrics
  ra,         \* the analyzeAllRules calls of GET /rules/issues
  upd,        \* the last updateRuleThreshold call: its arguments and its outcome
  fb,         \* the POST /rules/feedback requests answered, in order
  posted,     \* the bodies of the POST /events requests, where they are given
  snip        \* the tracking snippet of one page: its queue, clock and timer

vars == <<req, table, txOpen, txOwner, dbQueue, locked, stmt, faults, rd,
          sseClients, conn, written, pubs, now, rules, pick, met, ra, upd, fb,
          posted, snip>>

readVars == <<now, rules, pick, met, ra, upd, fb, posted, snip, snip>>

storeVars == <<table, txOpen, txOwner, dbQueue, locked, stmt, faults>>
sseVars == <<sseClients, conn, written, pubs>>

\* ------------------------------------------------- node-sqlite3 scheduling
\* Database::pending: the works (prepare, run, all) in flight on the thread pool.
pendingOf(st) == Cardinality({s \in Stmts : st[s].phase \in {"preparing", "running"}})

\* Database::Schedule. d = [q, locked, st]: the queue, the lock, the statements.
\* A call runs at once unless the connection is locked, or the call is
\* exclusive, while a work is pending; then it is queued.
Schedule(d, s, exclusive) ==
  IF (d.locked \/ exclusive) /\ pendingOf(d.st) > 0
  THEN [d EXCEPT !.q = Append(@, [stmt |-> s, exclusive |-> exclusive]),
                 !.st[s].phase = "queued"]
  ELSE [d EXCEPT !.locked = exclusive, !.st[s].phase = "preparing"]

\* Database::Process: start queued calls, stopping at an exclusive call that
\* has to wait for the pending works, and after starting an exclusive call.
RECURSIVE Process(_)
Process(d) ==
  IF (~d.locked \/ pendingOf(d.st) = 0) /\ d.q # <<>>
  THEN LET c == Head(d.q) IN
       IF c.exclusive /\ pendingOf(d.st) > 0
       THEN d
       ELSE LET d2 == [d EXCEPT !.q = Tail(@), !.locked = c.exclusive,
                                !.st[c.stmt].phase = "preparing"] IN
            IF c.exclusive THEN d2 ELSE Process(d2)
  ELSE d

\* Statement::Process: the statement is prepared and idle, so its next queued
\* call starts: a run/all goes to the thread pool, finalize completes at once.
StmtProcess(d, s) ==
  IF d.st[s].left > 0
  THEN [d EXCEPT !.st[s].phase = "running"]
  ELSE [d EXCEPT !.st[s].phase = "finalized"]

\* STATEMENT_END after a prepare or a run: the statement's queue first, then
\* the database's.
StatementEnd(d, s) == Process(StmtProcess(d, s))

Db == [q |-> dbQueue, locked |-> locked, st |-> stmt]

\* ------------------------------------------------------------ event store
\* Database.insertEvents(events), n = events.length: the INSERT statement is
\* prepared outside db.serialize; BEGIN, the n stmt.run calls, stmt.finalize and
\* COMMIT are issued inside it. The stmt.run calls pass no callback.
insertEvents(d, b, n) ==
  LET d0 == [d EXCEPT !.st[<<"INS", b>>].left = n,
                      !.st[<<"BEGIN", b>>].left = 1,
                      !.st[<<"COMMIT", b>>].left = 1]
      d1 == Schedule(d0, <<"INS", b>>, FALSE)
      d2 == Schedule(d1, <<"BEGIN", b>>, TRUE)
      d3 == Schedule(d2, <<"COMMIT", b>>, TRUE)
  IN Process(d3)

\* ------------------------------------------------------------------ events
\* A selector is the sequence of its characters; NullSel is SQL NULL.
NullSel == <<"NULL">>
NoDepth == -1    \* scroll_depth IS NULL

Ev(session, page, type, selector, depth, ts) ==
  [sessionId |-> session, pageUrl |-> page, eventType |-> type,
   elementSelector |-> selector, scrollDepth |-> depth, timestamp |-> ts]

Button == <<"b", "u", "t", "t", "o", "n">>
DivImg == <<"d", "i", "v", ".", "i">>

\* The events of the batches posted in Spec and SpecNotify: event i of batch b.
EventOf(b, i) == Ev(b, "/checkout", "click", Button, NoDepth, 500 * i)

\* A property of a JSON object: absent, null, a string (of characters) or a
\* number.
Absent == [t |-> "absent", s |-> <<>>, n |-> 0]
Null == [t |-> "null", s |-> <<>>, n |-> 0]
Str(s) == [t |-> "string", s |-> s, n |-> 0]
Num(n) == [t |-> "number", s |-> <<>>, n |-> n]

Click == <<"c", "l", "i", "c", "k">>
Scroll == <<"s", "c", "r", "o", "l", "l">>

\* An element of body.events, and a body: events is absent or an array.
RawEvent(sessionId, pageUrl, eventType, elementSelector, clickX, clickY, scrollDepth, timestamp) ==
  [sessionId |-> sessionId, pageUrl |-> pageUrl, eventType |-> eventType,
   elementSelector |-> elementSelector, clickX |-> clickX, clickY |-> clickY,
   scrollDepth |-> scrollDepth, timestamp |-> timestamp]

Body(items) == [events |-> [t |-> "array", items |-> items]]
BodyWithoutEvents == [events |-> [t |-> "absent", items |-> <<>>]]
NoBody == [events |-> [t |-> "none", items |-> <<>>]]

NoCoord == -1   \* click_x, click_y: NULL

\* The parameters of stmt.run for one event: property ?? null.
RunParams(e) ==
  [sessionId |-> e.sessionId.s, pageUrl |-> e.pageUrl.s,
   eventType |-> IF e.eventType.s = Click THEN "click"
                 ELSE IF e.eventType.s = Scroll THEN "scroll" ELSE "other",
   elementSelector |-> IF e.elementSelector.t = "string" THEN e.elementSelector.s
                       ELSE NullSel,
   clickX |-> IF e.clickX.t = "number" THEN e.clickX.n ELSE NoCoord,
   clickY |-> IF e.clickY.t = "number" THEN e.clickY.n ELSE NoCoord,
   scrollDepth |-> IF e.scrollDepth.t = "number" THEN e.scrollDepth.n ELSE NoDepth,
   timestamp |-> e.timestamp.n]

\* AUTOINCREMENT: one more than the largest id of the table.
RECURSIVE MaxId(_)
MaxId(t) == IF t = <<>> THEN 0
            ELSE LET rest == MaxId(Tail(t)) IN IF Head(t).id > rest THEN Head(t).id ELSE rest

NewRow(b, i) ==
  [id |-> MaxId(table) + 1, batch |-> b, idx |-> i,
   inTx |-> txOwner, durable |-> ~txOpen, createdAt |-> now,
   ev |-> IF posted[b] = NoBody THEN EventOf(b, i)
          ELSE RunParams(posted[b].events.items[i])]

RowsOf(t, b) == SelectSeq(t, LAMBDA r : r.batch = b)
CountOf(t, b) == Len(RowsOf(t, b))

\* ------------------------------------------------------- aggregate queries
\* The rows of a table, and sums and extremes over sets of rows.
Rows(t) == {t[k] : k \in 1..Len(t)}

RECURSIVE SumF(_, _)
SumF(S, F) ==
  IF S = {} THEN 0
  ELSE LET x == CHOOSE y \in S : TRUE IN F[x] + SumF(S \ {x}, F)

SumOver(S, f(_)) == SumF(S, [x \in S |-> f(x)])

MaxOver(S, f(_)) == LET x == CHOOSE y \in S : \A z \in S : f(z) <= f(y) IN f(x)
MinOver(S, f(_)) == LET x == CHOOSE y \in S : \A z \in S : f(y) <= f(z) IN f(x)

Clicks(t) == {r \in Rows(t) : r.ev.eventType = "click"}
Scrolls(t) == {r \in Rows(t) : r.ev.eventType = "scroll"}
SessionsOf(S) == {r.ev.sessionId : r \in S}
PagesOf(S) == {r.ev.pageUrl : r \in S}

\* ORDER BY key DESC LIMIT n: n rows with the largest keys.
TopN(S, n, key(_)) ==
  IF Cardinality(S) <= n THEN S
  ELSE CHOOSE T \in SUBSET S :
         /\ Cardinality(T) = n
         /\ \A x \in T, y \in S \ T : key(x) >= key(y)

\* The five queries of getAggregatedMetrics. An average is the pair <<sum, count>>.
MetricKeys == {"totalEvents", "totalSessions", "topClickedElements",
               "averageScrollDepth", "recentActivity"}

TopLimit == 10
RecentLimit == 5

MetricQuery(key, t, clock) ==
  CASE key = "totalEvents" -> {[count |-> Len(t)]}
    [] key = "totalSessions" -> {[count |-> Cardinality(SessionsOf(Rows(t)))]}
    [] key = "topClickedElements" ->
         LET C == {r \in Clicks(t) : r.ev.elementSelector # NullSel}
             G == {[element_selector |-> sel,
                    clicks |-> Cardinality({r \in C : r.ev.elementSelector = sel})] :
                   sel \in {r.ev.elementSelector : r \in C}}
         IN TopN(G, TopLimit, LAMBDA g : g.clicks)
    [] key = "averageScrollDepth" ->
         LET S == {r \in Scrolls(t) : r.ev.scrollDepth # NoDepth}
         IN {[avg_depth |-> <<SumOver(S, LAMBDA r : r.ev.scrollDepth), Cardinality(S)>>]}
    [] key = "recentActivity" ->
         LET S == {r \in Rows(t) : r.createdAt > clock - 1}
             G == {[page_url |-> p,
                    events_count |-> Cardinality({r \in S : r.ev.pageUrl = p})] :
                   p \in PagesOf(S)}
         IN TopN(G, RecentLimit, LAMBDA g : g.events_count)

\* ------------------------------------------------------------ rules engine
\* Default thresholds of RulesEngine.rules. minClickRate 0.05 is 5/100.
MinClickRateNum == 5
MinClickRateDen == 100
MinPageViews == 10
MaxScrollDepth == 30
MinSessionsScroll == 5
ClicksInWindow == 3
TimeWindow == 2000
MinOccurrences == 2
MinClicksOnNonInteractive == 5
MaxInteractionTime == 10000
MinSessionsExit == 5

NonInteractiveSelectors ==
  {<<"d", "i", "v">>, <<"s", "p", "a", "n">>, <<"p">>, <<"h", "1">>, <<"h", "2">>,
   <<"h", "3">>, <<"h", "4">>, <<"h", "5">>, <<"h", "6">>}

DefaultRules ==
  [lowClickRate |-> [minClickRate |-> <<MinClickRateNum, MinClickRateDen>>,
                     minPageViews |-> MinPageViews],
   lowScrollDepth |-> [maxScrollDepth |-> MaxScrollDepth,
                       minSessions |-> MinSessionsScroll],
   rageClicks |-> [clicksInWindow |-> ClicksInWindow, timeWindow |-> TimeWindow,
                   minOccurrences |-> MinOccurrences],
   deadClicks |-> [minClicksOnNonInteractive |-> MinClicksOnNonInteractive,
                   nonInteractiveSelectors |-> NonInteractiveSelectors],
   highExitRate |-> [maxInteractionTime |-> MaxInteractionTime,
                     minSessions |-> MinSessionsExit]]

RuleIds == {"lowClickRate", "lowScrollDepth", "rageClicks", "deadClicks",
            "highExitRate"}

\* severity of the rules; nothing assigns it after the constructor
Severity ==
  [lowClickRate |-> "medium", lowScrollDepth |-> "low", rageClicks |-> "high",
   deadClicks |-> "medium", highExitRate |-> "medium"]

NoSel == <<"NONE">>    \* elementSelector: null of an issue

\* Variant: the time of the analysis is written into the metrics as well.
IssueStamped(call, ruleId, page, selector, metrics) ==
  [id |-> <<ruleId, call, page, selector>>, ruleId |-> ruleId,
   severity |-> Severity[ruleId], pageUrl |-> page,
   elementSelector |-> selector, metrics |-> <<metrics, call>>, detectedAt |-> call]

\* The issue a detector builds from a row of its query. The id holds
\* Date.now() and a random string, here the number of the call.
Issue(call, ruleId, page, selector, metrics) ==
  [id |-> <<ruleId, call, page, selector>>, ruleId |-> ruleId,
   severity |-> Severity[ruleId], pageUrl |-> page,
   elementSelector |-> selector, metrics |-> metrics, detectedAt |-> call]

\* Variant: a click rate equal to minClickRate is flagged as well.
analyzeLowClickRateAtMost(call, t, th) ==
  LET C == {r \in Clicks(t) : r.ev.elementSelector # NullSel /\ r.ev.elementSelector # <<>>}
      PageSessions(p) == Cardinality(SessionsOf({r \in Rows(t) : r.ev.pageUrl = p}))
      Grp(sel, p) == {r \in C : r.ev.elementSelector = sel /\ r.ev.pageUrl = p}
      Keys == {<<r.ev.elementSelector, r.ev.pageUrl>> : r \in C}
  IN {Issue(call, "lowClickRate", k[2], k[1],
            [clickRate |-> <<Cardinality(SessionsOf(Grp(k[1], k[2]))), PageSessions(k[2])>>,
             clicks |-> Cardinality(Grp(k[1], k[2])),
             uniqueSessions |-> Cardinality(SessionsOf(Grp(k[1], k[2]))),
             pageSessions |-> PageSessions(k[2])]) :
      k \in {k \in Keys :
               /\ PageSessions(k[2]) >= th.minPageViews
               /\ Cardinality(SessionsOf(Grp(k[1], k[2]))) * th.minClickRate[2]
                    <= th.minClickRate[1] * PageSessions(k[2])}}

\* analyzeLowClickRate: per (selector, page) of the clicks with a selector, the
\* distinct clicking sessions over the distinct sessions of the page.
analyzeLowClickRate(call, t, th) ==
  LET C == {r \in Clicks(t) : r.ev.elementSelector # NullSel /\ r.ev.elementSelector # <<>>}
      PageSessions(p) == Cardinality(SessionsOf({r \in Rows(t) : r.ev.pageUrl = p}))
      Grp(sel, p) == {r \in C : r.ev.elementSelector = sel /\ r.ev.pageUrl = p}
      Keys == {<<r.ev.elementSelector, r.ev.pageUrl>> : r \in C}
  IN {Issue(call, "lowClickRate", k[2], k[1],
            [clickRate |-> <<Cardinality(SessionsOf(Grp(k[1], k[2]))), PageSessions(k[2])>>,
             clicks |-> Cardinality(Grp(k[1], k[2])),
             uniqueSessions |-> Cardinality(SessionsOf(Grp(k[1], k[2]))),
             pageSessions |-> PageSessions(k[2])]) :
      k \in {k \in Keys :
               /\ PageSessions(k[2]) >= th.minPageViews
               /\ Cardinality(SessionsOf(Grp(k[1], k[2]))) * th.minClickRate[2]
                    < th.minClickRate[1] * PageSessions(k[2])}}

\* Variant: a page whose mean depth equals maxScrollDepth is flagged too.
analyzeLowScrollDepthAtMost(call, t, th) ==
  LET S == {r \in Scrolls(t) : r.ev.scrollDepth # NoDepth}
      Grp(p) == {r \in S : r.ev.pageUrl = p}
      Sum(p) == SumOver(Grp(p), LAMBDA r : r.ev.scrollDepth)
  IN {Issue(call, "lowScrollDepth", p, NoSel,
            [avgScrollDepth |-> <<Sum(p), Cardinality(Grp(p))>>,
             maxScrollDepth |-> MaxOver(Grp(p), LAMBDA r : r.ev.scrollDepth),
             sessions |-> Cardinality(SessionsOf(Grp(p)))]) :
      p \in {p \in PagesOf(S) :
               /\ Cardinality(SessionsOf(Grp(p))) >= th.minSessions
               /\ Sum(p) <= th.maxScrollDepth * Cardinality(Grp(p))}}

\* analyzeLowScrollDepth: per page, over the scroll events with a depth.
analyzeLowScrollDepth(call, t, th) ==
  LET S == {r \in Scrolls(t) : r.ev.scrollDepth # NoDepth}
      Grp(p) == {r \in S : r.ev.pageUrl = p}
      Sum(p) == SumOver(Grp(p), LAMBDA r : r.ev.scrollDepth)
  IN {Issue(call, "lowScrollDepth", p, NoSel,
            [avgScrollDepth |-> <<Sum(p), Cardinality(Grp(p))>>,
             maxScrollDepth |-> MaxOver(Grp(p), LAMBDA r : r.ev.scrollDepth),
             sessions |-> Cardinality(SessionsOf(Grp(p)))]) :
      p \in {p \in PagesOf(S) :
               /\ Cardinality(SessionsOf(Grp(p))) >= th.minSessions
               /\ Sum(p) < th.maxScrollDepth * Cardinality(Grp(p))}}

\* analyzeRageClicks. The inner query joins each click e1 with the clicks e2 of
\* the same session and selector whose timestamp is in [e1.ts, e1.ts + window]
\* and groups by (session, selector, e1.timestamp); page_url is a bare column
\* of that group. The outer queries count the groups per (session, selector,
\* page) and the sessions per (selector, page).
analyzeRageClicks(call, t, th) ==
  LET C == Clicks(t)
      E1 == {r \in C : r.ev.elementSelector # NullSel}
      G1 == {<<r.ev.sessionId, r.ev.elementSelector, r.ev.timestamp>> : r \in E1}
      In1(g) == {r \in E1 : /\ r.ev.sessionId = g[1]
                            /\ r.ev.elementSelector = g[2]
                            /\ r.ev.timestamp = g[3]}
      In2(g) == {r \in C : /\ r.ev.sessionId = g[1]
                           /\ r.ev.elementSelector = g[2]
                           /\ r.ev.timestamp >= g[3]
                           /\ r.ev.timestamp <= g[3] + th.timeWindow}
      InWindow(g) == Cardinality(In1(g)) * Cardinality(In2(g))
      BarePage(g) ==
        LET r == IF pick = "first"
                 THEN CHOOSE x \in In1(g) : \A y \in In1(g) : x.id <= y.id
                 ELSE CHOOSE x \in In1(g) : \A y \in In1(g) : x.id >= y.id
        IN r.ev.pageUrl
      Rapid == {g \in G1 : InWindow(g) >= th.clicksInWindow}
      \* rage_click_sessions: (session, selector, page) -> rapid_clicks
      RS == {<<g[1], g[2], BarePage(g)>> : g \in Rapid}
      RapidClicks(k) == Cardinality({g \in Rapid : <<g[1], g[2], BarePage(g)>> = k})
      Keys == {<<k[2], k[3]>> : k \in RS}
      Of(sp) == {k \in RS : k[2] = sp[1] /\ k[3] = sp[2]}
  IN {Issue(call, "rageClicks", sp[2], sp[1],
            [affectedSessions |-> Cardinality(Of(sp)),
             totalRageClicks |-> SumOver(Of(sp), RapidClicks),
             avgRageClicksPerSession |-> <<SumOver(Of(sp), RapidClicks), Cardinality(Of(sp))>>]) :
      sp \in {sp \in Keys : Cardinality(Of(sp)) >= th.minOccurrences}}

\* LIKE 'prefix%': SQLite's LIKE does not tell upper from lower case letters.
Lower(c) ==
  CASE c = "D" -> "d" [] c = "I" -> "i" [] c = "V" -> "v" [] c = "P" -> "p"
    [] c = "S" -> "s" [] c = "A" -> "a" [] c = "N" -> "n" [] c = "H" -> "h"
    [] OTHER -> c

Like(sel, prefix) ==
  /\ Len(sel) >= Len(prefix)
  /\ \A i \in 1..Len(prefix) : Lower(sel[i]) = Lower(prefix[i])

\* analyzeDeadClicks: per (selector, page), the clicks whose selector is LIKE
\* one of the non-interactive prefixes.
analyzeDeadClicks(call, t, th) ==
  LET C == {r \in Clicks(t) :
              /\ r.ev.elementSelector # NullSel
              /\ \E pre \in th.nonInteractiveSelectors : Like(r.ev.elementSelector, pre)}
      Grp(sel, p) == {r \in C : r.ev.elementSelector = sel /\ r.ev.pageUrl = p}
      Keys == {<<r.ev.elementSelector, r.ev.pageUrl>> : r \in C}
  IN {Issue(call, "deadClicks", k[2], k[1],
            [clicks |-> Cardinality(Grp(k[1], k[2])),
             uniqueSessions |-> Cardinality(SessionsOf(Grp(k[1], k[2])))]) :
      k \in {k \in Keys : Cardinality(Grp(k[1], k[2])) >= th.minClicksOnNonInteractive}}

\* Variant: a page of which exactly one half of the sessions are quick exits
\* is flagged too.
analyzeHighExitRateFromHalf(call, t, th) ==
  LET Of(p, sid) == {r \in Rows(t) : r.ev.pageUrl = p /\ r.ev.sessionId = sid}
      Duration(p, sid) == MaxOver(Of(p, sid), LAMBDA r : r.ev.timestamp)
                          - MinOver(Of(p, sid), LAMBDA r : r.ev.timestamp)
      Sess(p) == SessionsOf({r \in Rows(t) : r.ev.pageUrl = p})
      Quick(p) == {sid \in Sess(p) : Duration(p, sid) <= th.maxInteractionTime}
  IN {Issue(call, "highExitRate", p, NoSel,
            [exitRate |-> <<Cardinality(Quick(p)), Cardinality(Sess(p))>>,
             sessions |-> Cardinality(Sess(p)),
             quickExitSessions |-> Cardinality(Quick(p))]) :
      p \in {p \in PagesOf(Rows(t)) :
               /\ Cardinality(Sess(p)) >= th.minSessions
               /\ 2 * Cardinality(Quick(p)) >= Cardinality(Sess(p))}}

\* analyzeHighExitRate: per (page, session) the span of all its events, per
\* page the share of the spans of at most maxInteractionTime.
analyzeHighExitRate(call, t, th) ==
  LET Of(p, sid) == {r \in Rows(t) : r.ev.pageUrl = p /\ r.ev.sessionId = sid}
      Duration(p, sid) == MaxOver(Of(p, sid), LAMBDA r : r.ev.timestamp)
                          - MinOver(Of(p, sid), LAMBDA r : r.ev.timestamp)
      Sess(p) == SessionsOf({r \in Rows(t) : r.ev.pageUrl = p})
      Quick(p) == {sid \in Sess(p) : Duration(p, sid) <= th.maxInteractionTime}
  IN {Issue(call, "highExitRate", p, NoSel,
            [exitRate |-> <<Cardinality(Quick(p)), Cardinality(Sess(p))>>,
             sessions |-> Cardinality(Sess(p)),
             quickExitSessions |-> Cardinality(Quick(p))]) :
      p \in {p \in PagesOf(Rows(t)) :
               /\ Cardinality(Sess(p)) >= th.minSessions
               /\ 2 * Cardinality(Quick(p)) > Cardinality(Sess(p))}}

\* Variant: a detector takes its thresholds when its query executes.
DetectLate(d, call, t, th) ==
  CASE d = "lowClickRate" -> analyzeLowClickRate(call, t, rules.lowClickRate)
    [] d = "lowScrollDepth" -> analyzeLowScrollDepth(call, t, rules.lowScrollDepth)
    [] d = "rageClicks" -> analyzeRageClicks(call, t, rules.rageClicks)
    [] d = "deadClicks" -> analyzeDeadClicks(call, t, rules.deadClicks)
    [] d = "highExitRate" -> analyzeHighExitRate(call, t, rules.highExitRate)

\* One detector: it took its thresholds th when analyzeAllRules was called and
\* reads the table t when its query executes.
Detect(d, call, t, th) ==
  CASE d = "lowClickRate" -> analyzeLowClickRate(call, t, th.lowClickRate)
    [] d = "lowScrollDepth" -> analyzeLowScrollDepth(call, t, th.lowScrollDepth)
    [] d = "rageClicks" -> analyzeRageClicks(call, t, th.rageClicks)
    [] d = "deadClicks" -> analyzeDeadClicks(call, t, th.deadClicks)
    [] d = "highExitRate" -> analyzeHighExitRate(call, t, th.highExitRate)

\* --------------------------------------------------------- change notifier
Msg == [type |-> "metrics_update", seq |-> Len(pubs) + 1]

\* Variant: a failed write ends the loop, so the clients after it get nothing.
broadcastSSEStopsAtFailure(w, clients, msg) ==
  [written |-> [l \in Listeners |->
                  IF l \in clients /\ \A k \in clients : k < l => conn[k].st # "broken"
                  THEN Append(w[l], msg) ELSE w[l]],
   clients |-> clients]

\* Variant: a client whose write fails is taken out of the registry.
broadcastSSEDropsFailed(w, clients, msg) ==
  [written |-> [l \in Listeners |-> IF l \in clients THEN Append(w[l], msg) ELSE w[l]],
   clients |-> {l \in clients : conn[l].st # "broken"}]

\* broadcastSSE(data): client.write(payload) for every client of sseClients.
\* A write to a dead socket fails without throwing; the loop goes on and the
\* registry is left as it is.
broadcastSSE(w, clients, msg) ==
  [written |-> [l \in Listeners |-> IF l \in clients THEN Append(w[l], msg) ELSE w[l]],
   clients |-> clients]

\* ---------------------------------------------------------- tracking snippet
BATCH_SIZE == 10
FLUSH_INTERVAL == 3000
SCROLL_THROTTLE == 1000

\* Date.now() when the script is loaded, and the step of the clock.
LoadedAt == 10000
ClockStep == 500

\* The script has run: an empty queue, lastScrollEventTs = 0 and the interval
\* timer set. sent holds the payloads handed to sendBeacon or fetch; an event
\* is the number of its capture.
SnippetLoaded ==
  [queue |-> <<>>, lastScrollEventTs |-> 0, sent |-> <<>>, captured |-> 0,
   clock |-> LoadedAt, due |-> LoadedAt + FLUSH_INTERVAL]

flush(sn) ==
  IF Len(sn.queue) = 0 THEN sn
  ELSE [sn EXCEPT !.sent = Append(@, sn.queue), !.queue = <<>>]

\* Variant: the queue is flushed when it holds more than BATCH_SIZE events.
enqueueOver(sn, evt) ==
  LET pushed == [sn EXCEPT !.queue = Append(@, evt)]
  IN IF Len(pushed.queue) > BATCH_SIZE THEN flush(pushed) ELSE pushed

enqueue(sn, evt) ==
  LET pushed == [sn EXCEPT !.queue = Append(@, evt)]
  IN IF Len(pushed.queue) >= BATCH_SIZE THEN flush(pushed) ELSE pushed

\* ------------------------------------------------------------- validation
\* validateBatch(body): body.events is an array of at least one well-formed event.
validateBatch(n, wellFormed) == n >= 1 /\ wellFormed

\* Variant: any string is taken as eventType.
validateEventAnyType(e) ==
  /\ e.sessionId.t = "string" /\ Len(e.sessionId.s) >= 1
  /\ e.pageUrl.t = "string" /\ Len(e.pageUrl.s) >= 1
  /\ e.eventType.t = "string"
  /\ e.elementSelector.t \in {"absent", "string", "null"}
  /\ e.clickX.t \in {"absent", "number", "null"}
  /\ e.clickY.t \in {"absent", "number", "null"}
  /\ e.scrollDepth.t \in {"absent", "number", "null"}
  /\ e.timestamp.t = "number"

\* eventSchema, property by property.
validateEvent(e) ==
  /\ e.sessionId.t = "string" /\ Len(e.sessionId.s) >= 1
  /\ e.pageUrl.t = "string" /\ Len(e.pageUrl.s) >= 1
  /\ e.eventType.t = "string" /\ e.eventType.s \in {Click, Scroll}
  /\ e.elementSelector.t \in {"absent", "string", "null"}
  /\ e.clickX.t \in {"absent", "number", "null"}
  /\ e.clickY.t \in {"absent", "number", "null"}
  /\ e.scrollDepth.t \in {"absent", "number", "null"}
  /\ e.timestamp.t = "number"

\* batchSchema: events is required, an array of at least one item, each an
\* event.
validateBatchBody(body) ==
  /\ body.events.t = "array"
  /\ Len(body.events.items) >= 1
  /\ \A k \in 1..Len(body.events.items) : validateEvent(body.events.items[k])

\* Promise.all over the five detector promises: rejected as soon as one of
\* them is, fulfilled with all five results when all are.
PromiseAllTolerant(promise, det, out) ==
  IF promise # "pending" THEN [promise |-> promise, value |-> {}]
  ELSE IF \A d \in RuleIds : det[d] \in {"ok", "err"}
  THEN [promise |-> "resolved", value |-> UNION {out[d] : d \in RuleIds}]
  ELSE [promise |-> "pending", value |-> {}]

PromiseAll(promise, det, out) ==
  IF promise # "pending" THEN [promise |-> promise, value |-> {}]
  ELSE IF \E d \in RuleIds : det[d] = "err"
  THEN [promise |-> "rejected", value |-> {}]
  ELSE IF \A d \in RuleIds : det[d] = "ok"
  THEN [promise |-> "resolved", value |-> UNION {out[d] : d \in RuleIds}]
  ELSE [promise |-> "pending", value |-> {}]

\* getSuggestionsForRule: the first three texts of the rule's catalog.
CatalogSize == 5
SuggestionLimit == 3

Catalog(ruleId) == [i \in 1..CatalogSize |-> <<ruleId, "text", i>>]

\* suggestions.slice(0, 3).map(...) on the array c
SuggestionsOf(c, ruleId) ==
  LET n == IF Len(c) < SuggestionLimit THEN Len(c) ELSE SuggestionLimit
  IN [i \in 1..n |->
        [id |-> <<"suggestion", ruleId, i - 1>>, text |-> c[i],
         priority |-> IF i = 1 THEN "high" ELSE IF i = 2 THEN "medium" ELSE "low"]]

\* Variant: the whole catalog is returned.
getSuggestionsForRuleWhole(ruleId) ==
  [i \in 1..Len(Catalog(ruleId)) |->
     [id |-> <<"suggestion", ruleId, i - 1>>, text |-> Catalog(ruleId)[i],
      priority |-> IF i = 1 THEN "high" ELSE IF i = 2 THEN "medium" ELSE "low"]]

getSuggestionsForRule(ruleId) == SuggestionsOf(Catalog(ruleId), ruleId)

\* analyzeAllRules after the await: every issue gets its suggestions.
WithSuggestions(issues) ==
  {[id |-> i.id, ruleId |-> i.ruleId, severity |-> i.severity, pageUrl |-> i.pageUrl,
    elementSelector |-> i.elementSelector, metrics |-> i.metrics,
    detectedAt |-> i.detectedAt, suggestions |-> getSuggestionsForRule(i.ruleId)] :
   i \in issues}

\* The callback of one query of getAggregatedMetrics, on an error: reject(err).
\* Variant: the error is logged and the query counts as completed.
metricsOnErrorTolerant(mm, key) ==
  LET c == mm.completed + 1
      done == c = Cardinality(MetricKeys) /\ mm.promise = "pending"
  IN [mm EXCEPT !.q[key] = "err", !.completed = c,
                !.promise = IF done THEN "resolved" ELSE @,
                !.value = IF done THEN mm.results ELSE @,
                !.settles = IF done THEN @ + 1 ELSE @]

metricsOnError(mm, key) ==
  [mm EXCEPT !.q[key] = "err",
             !.rejects = @ + 1,
             !.promise = IF @ = "pending" THEN "rejected" ELSE @,
             !.settles = IF mm.promise = "pending" THEN @ + 1 ELSE @]

\* ... and on its rows: results[key] = rows; completed++; resolve(results)
\* when completed === total.
metricsOnRows(mm, key, rows) ==
  LET res == [mm.results EXCEPT ![key] = rows]
      c == mm.completed + 1
      done == c = Cardinality(MetricKeys) /\ mm.promise = "pending"
  IN [mm EXCEPT !.q[key] = "ok", !.ret[key] = rows, !.results = res,
                !.completed = c,
                !.promise = IF done THEN "resolved" ELSE @,
                !.value = IF done THEN res ELSE @,
                !.settles = IF done THEN @ + 1 ELSE @]

\* ------------------------------------------------------------------- Init
NoMetrics ==
  [q |-> [k \in MetricKeys |-> "none"], ret |-> [k \in MetricKeys |-> {}],
   results |-> [k \in MetricKeys |-> {}], completed |-> 0, promise |-> "none",
   value |-> [k \in MetricKeys |-> {}], rejects |-> 0, settles |-> 0,
   resp |-> "none", calls |-> 0]

Calls == {1, 2}    \* the GET /rules/issues requests

NoAnalysis ==
  [st |-> "none", th |-> DefaultRules, det |-> [d \in RuleIds |-> "none"],
   ret |-> [d \in RuleIds |-> {}],
   promise |-> "none", value |-> {}, resp |-> "none", v0 |-> 0, v1 |-> 0]

NoUpdate == [ruleId |-> "", key |-> "", value |-> 0, ret |-> "none"]

InitReads ==
  /\ now = 0
  /\ rules = DefaultRules
  /\ upd = NoUpdate
  /\ fb = <<>>
  /\ posted = [b \in Batches |-> NoBody]
  /\ snip = SnippetLoaded
  /\ met = NoMetrics
  /\ ra = [a \in Calls |-> NoAnalysis]

InitServer ==
  /\ req = [b \in Batches |-> [st |-> "idle", n |-> 0, resp |-> "none",
                               promise |-> "none", rowErr |-> {},
                               overlap |-> FALSE, published |-> 0]]
  /\ txOpen = FALSE
  /\ txOwner = 0
  /\ dbQueue = <<>>
  /\ locked = FALSE
  /\ stmt = [s \in Stmts |-> [phase |-> "none", left |-> 0]]
  /\ faults = 0
  /\ rd = [r \in Reads |-> [st |-> "none", after |-> {}, at |-> {},
                            got |-> [b \in Batches |-> 0]]]
  /\ sseClients = {}
  /\ conn = [l \in Listeners |-> [st |-> "new", regAt |-> 0, closeAt |-> 0,
                                    failed |-> 0]]
  /\ written = [l \in Listeners |-> <<>>]
  /\ pubs = <<>>
  /\ InitReads

Init ==
  /\ InitServer
  /\ table = <<>>
  /\ pick = "first"

InFlight(b) == req[b].st = "inflight"
Settled(b) == req[b].promise # "none"

SetDb(d) ==
  /\ dbQueue' = d.q
  /\ locked' = d.locked
  /\ stmt' = d.st

\* ---------------------------------------------------------------- actions
\* POST /events with a body that fails validateBatch: 400, nothing else.
PostInvalid(b) ==
  /\ req[b].st = "idle"
  /\ \A c \in Batches : c < b => req[c].st # "idle"
  /\ \E n \in 0..MaxBatch, wf \in BOOLEAN :
       /\ ~validateBatch(n, wf)
       /\ req' = [req EXCEPT ![b].st = "done", ![b].n = n, ![b].resp = "400"]
  /\ UNCHANGED <<storeVars, rd, sseVars>>
  /\ UNCHANGED readVars

\* POST /events with the body given, up to the return after the 400 or to the
\* await of db.insertEvents.
PostBody(b, bodies) ==
  /\ req[b].st = "idle"
  /\ \A c \in Batches : c < b => req[c].st # "idle"
  /\ \E body \in bodies :
       /\ posted' = [posted EXCEPT ![b] = body]
       /\ IF validateBatchBody(body)
          THEN /\ req' = [c \in Batches |->
                           IF c = b
                           THEN [req[c] EXCEPT !.st = "inflight",
                                               !.n = Len(body.events.items),
                                               !.overlap = \E e \in Batches : InFlight(e)]
                           ELSE IF InFlight(c) THEN [req[c] EXCEPT !.overlap = TRUE]
                           ELSE req[c]]
               /\ SetDb(insertEvents(Db, b, Len(body.events.items)))
          ELSE /\ req' = [req EXCEPT ![b].st = "done",
                                     ![b].n = Len(body.events.items),
                                     ![b].resp = "400"]
               /\ UNCHANGED <<dbQueue, locked, stmt>>
  /\ UNCHANGED <<table, txOpen, txOwner, faults, rd, sseVars,
                 now, rules, pick, met, ra, upd, fb, snip>>

\* POST /events with a valid body, up to the await of db.insertEvents.
PostEvents(b, sizes) ==
  /\ req[b].st = "idle"
  /\ \A c \in Batches : c < b => req[c].st # "idle"
  /\ \E n \in sizes :
       /\ validateBatch(n, TRUE)
       /\ req' = [c \in Batches |->
                    IF c = b
                    THEN [req[c] EXCEPT !.st = "inflight", !.n = n,
                                        !.overlap = \E e \in Batches : InFlight(e)]
                    ELSE IF InFlight(c) THEN [req[c] EXCEPT !.overlap = TRUE]
                    ELSE req[c]]
       /\ SetDb(insertEvents(Db, b, n))
  /\ UNCHANGED <<table, txOpen, txOwner, faults, rd, sseVars>>
  /\ UNCHANGED readVars

\* Work_AfterPrepare of any statement.
PrepareDone(s) ==
  /\ stmt[s].phase = "preparing"
  /\ SetDb(StatementEnd(Db, s))
  /\ UNCHANGED <<req, table, txOpen, txOwner, faults, rd, sseVars>>
  /\ UNCHANGED readVars

\* One stmt.run of the INSERT statement: the row is written.
InsertRow(b) ==
  LET s == <<"INS", b>>
      i == req[b].n - stmt[s].left + 1
  IN /\ stmt[s].phase = "running"
     /\ table' = Append(table, NewRow(b, i))
     /\ SetDb(StatementEnd([Db EXCEPT !.st[s].left = @ - 1], s))
     /\ UNCHANGED <<req, txOpen, txOwner, faults, rd, sseVars>>
  /\ UNCHANGED readVars

\* One stmt.run of the INSERT statement fails (constraint, I/O). No callback
\* was passed, so insertEvents does not learn of it.
InsertRowFails(b) ==
  LET s == <<"INS", b>>
      i == req[b].n - stmt[s].left + 1
  IN /\ stmt[s].phase = "running"
     /\ faults < MaxFaults
     /\ faults' = faults + 1
     /\ req' = [req EXCEPT ![b].rowErr = @ \cup {i}]
     /\ SetDb(StatementEnd([Db EXCEPT !.st[s].left = @ - 1], s))
     /\ UNCHANGED <<table, txOpen, txOwner, rd, sseVars>>
  /\ UNCHANGED readVars

\* db.run('BEGIN TRANSACTION'): opens a transaction, or fails (unobserved: no
\* callback) when the connection already is inside one.
Begin(b) ==
  LET s == <<"BEGIN", b>> IN
  /\ stmt[s].phase = "running"
  /\ IF txOpen THEN UNCHANGED <<txOpen, txOwner>>
     ELSE txOpen' = TRUE /\ txOwner' = b
  /\ SetDb(StatementEnd([Db EXCEPT !.st[s].left = 0], s))
  /\ UNCHANGED <<req, table, faults, rd, sseVars>>
  /\ UNCHANGED readVars

\* The rest of the POST /events handler, run when insertEvents settles:
\* resolved: broadcastSSE, then res.json ok; rejected: the catch answers 500.
Publishes(promise) == promise = "resolved"

Respond(b, promise) ==
  /\ req' = [req EXCEPT ![b].st = "done", ![b].promise = promise,
                        ![b].resp = IF promise = "resolved" THEN "ok" ELSE "500",
                        ![b].published = IF Publishes(promise) THEN @ + 1 ELSE @]
  /\ IF Publishes(promise)
     THEN /\ written' = broadcastSSE(written, sseClients, Msg).written
          /\ sseClients' = broadcastSSE(written, sseClients, Msg).clients
          /\ pubs' = Append(pubs, Msg)
          /\ conn' = [l \in Listeners |->
                        IF l \in sseClients /\ conn[l].st = "broken"
                        THEN [conn[l] EXCEPT !.failed = @ + 1] ELSE conn[l]]
     ELSE UNCHANGED <<written, sseClients, pubs, conn>>

\* db.run('COMMIT', cb) succeeds: resolve().
Commit(b) ==
  LET s == <<"COMMIT", b>> IN
  /\ stmt[s].phase = "running"
  /\ txOpen
  /\ table' = [k \in 1..Len(table) |-> [table[k] EXCEPT !.durable = TRUE]]
  /\ txOpen' = FALSE
  /\ txOwner' = 0
  /\ Respond(b, "resolved")
  /\ SetDb(StatementEnd([Db EXCEPT !.st[s].left = 0], s))
  /\ UNCHANGED <<faults, rd>>
  /\ UNCHANGED readVars

\* db.run('COMMIT', cb) fails: reject(err). No ROLLBACK is issued: after a
\* busy error the transaction stays open, after an I/O error SQLite has rolled
\* it back itself.
CommitFails(b) ==
  LET s == <<"COMMIT", b>> IN
  /\ stmt[s].phase = "running"
  /\ faults < MaxFaults
  /\ faults' = faults + 1
  /\ \/ UNCHANGED <<table, txOpen, txOwner>>
     \/ /\ txOpen
        /\ table' = SelectSeq(table, LAMBDA r : r.durable)
        /\ txOpen' = FALSE
        /\ txOwner' = 0
  /\ Respond(b, "rejected")
  /\ SetDb(StatementEnd([Db EXCEPT !.st[s].left = 0], s))
  /\ UNCHANGED rd
  /\ UNCHANGED readVars

\* A GET handler issues one db.all(query, cb).
Read(r) ==
  /\ rd[r].st = "none"
  /\ \A q \in Reads : q < r => rd[q].st # "none"
  /\ rd' = [rd EXCEPT ![r].st = "issued",
                      ![r].after = {b \in Batches : Settled(b)}]
  /\ SetDb(Process(Schedule([Db EXCEPT !.st[<<"SEL", r>>].left = 1],
                            <<"SEL", r>>, FALSE)))
  /\ UNCHANGED <<req, table, txOpen, txOwner, faults, sseVars>>
  /\ UNCHANGED readVars

\* The db.all executes: it returns the rows the connection sees.
ReadDone(r) ==
  LET s == <<"SEL", r>> IN
  /\ stmt[s].phase = "running"
  /\ rd' = [rd EXCEPT ![r].st = "done",
                      ![r].at = {b \in Batches : req[b].promise = "resolved"},
                      ![r].got = [b \in Batches |-> CountOf(table, b)]]
  /\ SetDb(StatementEnd([Db EXCEPT !.st[s].left = 0], s))
  /\ UNCHANGED <<req, table, txOpen, txOwner, faults, sseVars>>
  /\ UNCHANGED readVars

\* GET /metrics/stream: the ping is written, the response joins the registry.
Connect(l) ==
  /\ conn[l].st = "new"
  /\ \A k \in Listeners : k < l => conn[k].st # "new"
  /\ written' = [written EXCEPT ![l] = Append(@, [type |-> "ping", seq |-> 0])]
  /\ sseClients' = sseClients \cup {l}
  /\ conn' = [conn EXCEPT ![l].st = "open", ![l].regAt = Len(pubs)]
  /\ UNCHANGED <<req, storeVars, rd, pubs>>
  /\ UNCHANGED readVars

\* The client's socket dies; the 'close' event has not been dispatched yet, so
\* writes to it fail from here on.
Break(l) ==
  /\ conn[l].st = "open"
  /\ conn' = [conn EXCEPT ![l].st = "broken"]
  /\ UNCHANGED <<req, storeVars, rd, sseClients, written, pubs>>
  /\ UNCHANGED readVars

\* req.on('close'): the response leaves the registry.
Close(l) ==
  /\ conn[l].st \in {"open", "broken"}
  /\ sseClients' = sseClients \ {l}
  /\ conn' = [conn EXCEPT ![l].st = "closed", ![l].closeAt = Len(pubs)]
  /\ UNCHANGED <<req, storeVars, rd, written, pubs>>
  /\ UNCHANGED readVars

Next ==
  \/ \E b \in Batches : PostInvalid(b)
  \/ \E b \in Batches : PostEvents(b, 1..MaxBatch)
  \/ \E s \in Stmts : PrepareDone(s)
  \/ \E b \in Batches : InsertRow(b)
  \/ \E b \in Batches : InsertRowFails(b)
  \/ \E b \in Batches : Begin(b)
  \/ \E b \in Batches : Commit(b)
  \/ \E b \in Batches : CommitFails(b)
  \/ \E r \in Reads : Read(r)
  \/ \E r \in Reads : ReadDone(r)
  \/ \E l \in Listeners : Connect(l)
  \/ \E l \in Listeners : Break(l)
  \/ \E l \in Listeners : Close(l)

Spec == Init /\ [][Next]_vars

\* The handler and the notifier alone: no reads, and the clients post valid
\* batches of one event whose row is written (the handler learns of a failure
\* from the COMMIT only, and the size of a batch plays no part in the notifier).
OneEvent == {1}

NextNotify ==
  \/ \E b \in Batches : PostEvents(b, OneEvent)
  \/ \E s \in Stmts : PrepareDone(s)
  \/ \E b \in Batches : InsertRow(b)
  \/ \E b \in Batches : Begin(b)
  \/ \E b \in Batches : Commit(b)
  \/ \E b \in Batches : CommitFails(b)
  \/ \E l \in Listeners : Connect(l)
  \/ \E l \in Listeners : Break(l)
  \/ \E l \in Listeners : Close(l)

SpecNotify == Init /\ [][NextNotify]_vars

\* ------------------------------------------------- metrics and rules requests
\* Event logs the database file holds when the server starts.
SeedRow(k, e) ==
  [id |-> k, batch |-> 0, idx |-> k, inTx |-> 0, durable |-> TRUE,
   createdAt |-> 0, ev |-> e]

\* Two sessions with three clicks 500 ms apart on one button, five sessions with
\* one click on a div, five sessions with one shallow scroll.
SeedSmall ==
  [k \in 1..16 |->
     SeedRow(k,
       IF k <= 6 THEN Ev(1 + ((k - 1) \div 3), "/checkout", "click", Button, NoDepth,
                         500 * ((k - 1) % 3))
       ELSE IF k <= 11 THEN Ev(10 + k, "/product", "click", DivImg, NoDepth, 0)
       ELSE Ev(20 + k, "/blog", "scroll", NullSel, 10, 0))]

\* Twenty-one sessions on one page, one of which clicks the button.
SeedClickRate ==
  [k \in 1..22 |->
     SeedRow(k,
       IF k <= 21 THEN Ev(100 + k, "/landing", "scroll", NullSel, 50, 0)
       ELSE Ev(101, "/landing", "click", Button, NoDepth, 30000))]

SeedLogs == {<<>>, SeedSmall, SeedClickRate}

\* Events written by the ingestion while requests run.
AppendCatalog ==
  {Ev(1, "/cart", "click", Button, NoDepth, 0),
   Ev(26, "/blog", "scroll", NullSel, 90, 0)}

InitSeeded ==
  /\ InitServer
  /\ table \in SeedLogs
  /\ pick \in {"first", "last"}

\* One INSERT of the ingestion path completes (see InsertRow).
RowWritten(e) ==
  /\ CountOf(table, 1) < MaxAppend
  /\ table' = Append(table, [id |-> MaxId(table) + 1, batch |-> 1,
                             idx |-> CountOf(table, 1) + 1, inTx |-> 0,
                             durable |-> TRUE, createdAt |-> now, ev |-> e])
  /\ UNCHANGED <<req, txOpen, txOwner, dbQueue, locked, stmt, faults, rd, sseVars, upd, fb, posted, snip,
                 now, rules, pick, met, ra>>

Tick ==
  /\ now < MaxClock
  /\ now' = now + 1
  /\ UNCHANGED <<req, storeVars, rd, sseVars, upd, fb, posted, snip, rules, pick, met, ra>>

\* GET /metrics answers when the promise of getAggregatedMetrics settles.
MetricsResp(mm) ==
  [mm EXCEPT !.resp = IF mm.promise = "resolved" THEN "json"
                      ELSE IF mm.promise = "rejected" THEN "500" ELSE "none"]

\* GET /metrics: getAggregatedMetrics issues its five db.all at once.
MetricsCall ==
  /\ \A k \in MetricKeys : met.q[k] # "pending"
  /\ met' = [NoMetrics EXCEPT !.q = [k \in MetricKeys |-> "pending"],
                              !.promise = "pending"]
  /\ UNCHANGED <<req, storeVars, rd, sseVars, upd, fb, posted, snip, now, rules, pick, ra>>

\* The callback of one of the five queries, with its rows.
MetricsRead(key) ==
  /\ met.q[key] = "pending"
  /\ met' = MetricsResp(metricsOnRows(met, key, MetricQuery(key, table, now)))
  /\ UNCHANGED <<req, storeVars, rd, sseVars, upd, fb, posted, snip, now, rules, pick, ra>>

\* The callback of one of the five queries, with an error.
MetricsReadFails(key) ==
  /\ met.q[key] = "pending"
  /\ Cardinality({k \in MetricKeys : met.q[k] = "err"}) < MaxReadFaults
  /\ met' = MetricsResp(metricsOnError(met, key))
  /\ UNCHANGED <<req, storeVars, rd, sseVars, upd, fb, posted, snip, now, rules, pick, ra>>

NextMetrics ==
  \/ MetricsCall
  \/ \E k \in MetricKeys : MetricsRead(k)
  \/ \E k \in MetricKeys : MetricsReadFails(k)
  \/ \E e \in AppendCatalog : RowWritten(e)
  \/ Tick

SpecMetrics == InitSeeded /\ [][NextMetrics]_vars

\* GET /rules/issues answers when the promise of analyzeAllRules settles.
Settle(r) ==
  LET p == PromiseAll(r.promise, r.det, r.ret)
  IN [r EXCEPT !.promise = p.promise,
               !.value = IF r.promise = "pending" THEN WithSuggestions(p.value) ELSE @,
               !.resp = IF p.promise = "resolved" THEN "json"
                        ELSE IF p.promise = "rejected" THEN "500" ELSE "none"]

AllDone(a) == \A d \in RuleIds : ra[a].det[d] \in {"ok", "err"}

\* GET /rules/issues: analyzeAllRules calls the five detectors; each takes its
\* thresholds and issues its db.all. A request is shown after the one before
\* it has ended: the calls share nothing but the table they read.
AnalyzeCall(a) ==
  /\ ra[a].st = "none"
  /\ \A c \in Calls : c < a => (ra[c].st = "called" /\ AllDone(c))
  /\ ra' = [ra EXCEPT ![a] = [NoAnalysis EXCEPT !.st = "called", !.th = rules,
                                !.det = [d \in RuleIds |-> "pending"],
                                !.promise = "pending",
                                !.v0 = Len(table), !.v1 = Len(table)]]
  /\ UNCHANGED <<req, storeVars, rd, sseVars, upd, fb, posted, snip, now, rules, pick, met>>

\* The callback of a detector's query, with its rows.
DetectorDone(a, d) ==
  /\ ra[a].det[d] = "pending"
  /\ LET issues == Detect(d, a, table, ra[a].th)
     IN ra' = [ra EXCEPT ![a] = Settle([ra[a] EXCEPT !.det[d] = "ok",
                                                     !.ret[d] = issues,
                                                     !.v1 = Len(table)])]
  /\ UNCHANGED <<req, storeVars, rd, sseVars, upd, fb, posted, snip, now, rules, pick, met>>

\* The callback of a detector's query, with an error: the detector rejects.
DetectorFails(a, d) ==
  /\ ra[a].det[d] = "pending"
  /\ Cardinality({e \in RuleIds : ra[a].det[e] = "err"}) < MaxDetFaults
  /\ ra' = [ra EXCEPT ![a] = Settle([ra[a] EXCEPT !.det[d] = "err",
                                                  !.v1 = Len(table)])]
  /\ UNCHANGED <<req, storeVars, rd, sseVars, upd, fb, posted, snip, now, rules, pick, met>>

\* One GET /rules/issues whose detectors may fail.
FirstCall == {1}

NextRules ==
  \/ \E a \in FirstCall : AnalyzeCall(a)
  \/ \E a \in FirstCall, d \in RuleIds : DetectorDone(a, d)
  \/ \E a \in FirstCall, d \in RuleIds : DetectorFails(a, d)
  \/ \E e \in AppendCatalog : RowWritten(e)

SpecRules == InitSeeded /\ [][NextRules]_vars

\* updateRuleThreshold(ruleId, thresholdKey, value): sets the threshold when
\* the rule and the key exist, and changes nothing otherwise.
\* this.rules[ruleId] and thresholds[thresholdKey] are property reads of plain
\* objects: a name every object inherits (Inherited) is found as well. For
\* such a ruleId the value read is not a rule, its .thresholds is undefined
\* and reading thresholds[thresholdKey] throws; for such a key the test
\* !== undefined passes and the assignment gives the thresholds a new property.
Inherited == {"constructor", "toString"}

\* Variant: the call answers true and sets nothing.
updateRuleThresholdIgnored(rs, ruleId, key, value) ==
  [rules |-> rs,
   ret |-> IF ruleId \in DOMAIN rs /\ key \in DOMAIN rs[ruleId] THEN "true" ELSE "false"]

updateRuleThreshold(rs, ruleId, key, value) ==
  IF ruleId \in DOMAIN rs
  THEN IF key \in DOMAIN rs[ruleId] \cup Inherited
       THEN [rules |-> [rs EXCEPT ![ruleId] =
                          [k \in DOMAIN rs[ruleId] \cup {key} |->
                             IF k = key THEN value ELSE rs[ruleId][k]]],
             ret |-> "true"]
       ELSE [rules |-> rs, ret |-> "false"]
  ELSE IF ruleId \in Inherited
  THEN [rules |-> rs, ret |-> "throws"]
  ELSE [rules |-> rs, ret |-> "false"]

\* The updates the engine's owner makes: a lower and the default scroll depth,
\* and an unknown key.
ThresholdUpdates ==
  {<<"lowScrollDepth", "maxScrollDepth", 5>>,
   <<"lowScrollDepth", "maxScrollDepth", MaxScrollDepth>>,
   <<"lowScrollDepth", "depth", 5>>}

\* The update made between two analyses.
LowerScrollDepth == {<<"lowScrollDepth", "maxScrollDepth", 5>>}

UpdateThreshold(u) ==
  /\ rules' = updateRuleThreshold(rules, u[1], u[2], u[3]).rules
  /\ upd' = [ruleId |-> u[1], key |-> u[2], value |-> u[3],
             ret |-> updateRuleThreshold(rules, u[1], u[2], u[3]).ret]
  /\ UNCHANGED <<req, storeVars, rd, sseVars, fb, posted, snip, now, pick, met, ra>>

\* Two analyzeAllRules calls, one after the other, whose detectors all succeed.
NextRepeat ==
  \/ \E a \in Calls : AnalyzeCall(a)
  \/ \E a \in Calls, d \in RuleIds : DetectorDone(a, d)
  \/ \E e \in AppendCatalog : RowWritten(e)
  \/ \E u \in LowerScrollDepth : UpdateThreshold(u)

SpecRepeat == InitSeeded /\ [][NextRepeat]_vars

\* ------------------------------------------------------ threshold updates
\* The log of a page whose button one session in fourteen has clicked, all of
\* them having scrolled a fifth of the page.
SeedMidRate ==
  [k \in 1..15 |->
     SeedRow(k,
       IF k <= 14 THEN Ev(200 + k, "/signup", "scroll", NullSel, 20, 0)
       ELSE Ev(201, "/signup", "click", Button, NoDepth, 30000))]

InitThresholds ==
  /\ InitServer
  /\ table = SeedMidRate
  /\ pick \in {"first", "last"}

\* updateRuleThreshold calls: known thresholds, an unknown key, the key of
\* another rule, an unknown rule, and names every object inherits.
ThresholdCalls ==
  ThresholdUpdates \cup
  {<<"lowClickRate", "minClickRate", <<10, 100>>>>,
   <<"lowClickRate", "minSessions", 5>>,
   <<"scrollDepth", "maxScrollDepth", 5>>,
   <<"constructor", "minSessions", 5>>,
   <<"rageClicks", "toString", 5>>}

NextThresholds ==
  \/ \E u \in ThresholdCalls : UpdateThreshold(u)
  \/ \E a \in Calls : AnalyzeCall(a)
  \/ \E a \in Calls, d \in RuleIds : DetectorDone(a, d)

SpecThresholds == InitThresholds /\ [][NextThresholds]_vars

\* ----------------------------------------------------- the detectors alone
\* An event log as the table holds it.
LogOf(evs) == [k \in 1..Len(evs) |-> SeedRow(k, evs[k])]

InitLogs(logs) ==
  /\ InitServer
  /\ table \in logs
  /\ pick \in {"first", "last"}

\* A page /p that n sessions have scrolled and whose button the first k of them
\* have clicked, the first of them twice when twice holds; and a click of
\* another session on the same button of another page.
ClickRateLog(n, k, twice) ==
  LogOf([i \in 1..n |-> Ev(i, "/p", "scroll", NullSel, 50, 0)]
        \o [i \in 1..k |-> Ev(i, "/p", "click", Button, NoDepth, 1000)]
        \o (IF twice /\ k >= 1 THEN <<Ev(1, "/p", "click", Button, NoDepth, 2000)>>
            ELSE <<>>)
        \o <<Ev(n + 1, "/q", "click", Button, NoDepth, 0)>>)

\* Small pages, and the pages at the default thresholds: one session short of
\* minPageViews, a click rate of exactly and of just under minClickRate, and 2
\* clicking sessions out of 50.
ClickRateSizes ==
  {<<n, k>> : n \in 0..MaxSessions, k \in 0..MaxSessions} \cup
  {<<MinPageViews - 1, 1>>, <<MinPageViews, 1>>, <<20, 1>>, <<21, 1>>, <<50, 2>>}

ClickRateLogs ==
  {ClickRateLog(z[1], z[2], twice) :
     z \in {y \in ClickRateSizes : y[2] <= y[1]}, twice \in BOOLEAN}

ClickRateUpdates ==
  {<<"lowClickRate", "minPageViews", 3>>,
   <<"lowClickRate", "minClickRate", <<1, 2>>>>}

LowClickRateOnly == {"lowClickRate"}

NextLowClickRate ==
  \/ \E u \in ClickRateUpdates : UpdateThreshold(u)
  \/ \E a \in FirstCall : AnalyzeCall(a)
  \/ \E a \in FirstCall, d \in LowClickRateOnly : DetectorDone(a, d)

SpecLowClickRate == InitLogs(ClickRateLogs) /\ [][NextLowClickRate]_vars

\* n sessions that each click the submit button of /checkout c times, gap ms
\* apart (generateTestData: 3 sessions, 5 clicks, 500 ms). With a gap of 0 the
\* clicks of a session carry one timestamp.
RageLog(n, c, gap) ==
  LogOf([i \in 1..(n * c) |->
           Ev(1 + ((i - 1) \div c), "/checkout", "click", Button, NoDepth,
              300000 * ((i - 1) \div c) + gap * ((i - 1) % c))])

ClickGaps == {0, 500, 1000, 1001}

RageLogs ==
  {RageLog(n, c, gap) : n \in 0..MaxSessions, c \in 1..MaxClicks, gap \in ClickGaps}

RageClicksOnly == {"rageClicks"}

NextRageClicks ==
  \/ \E a \in FirstCall : AnalyzeCall(a)
  \/ \E a \in FirstCall, d \in RageClicksOnly : DetectorDone(a, d)

SpecRageClicks == InitLogs(RageLogs) /\ [][NextRageClicks]_vars

\* n sessions that each click the element sel of /product-page once
\* (generateTestData: 8 sessions on div.product-image).
DeadLog(sel, n) ==
  LogOf([i \in 1..n |-> Ev(i, "/product-page", "click", sel, NoDepth, 1000 * i)])

GeneratedDeadClicks == 8

ClickedSelectors ==
  {DivImg, <<"d", "i", "v">>, <<"p">>, <<"p", ".", "x">>, <<"h", "1", "#", "t">>,
   <<"s", "p", "a", "n">>, <<"p", "r", "e">>, <<"p", "a", "t", "h">>,
   <<"p", "i", "c", "t", "u", "r", "e">>, <<"D", "I", "V", ".", "x">>,
   <<"h", "7">>, <<"a">>, Button}

DeadLogs ==
  {DeadLog(sel, n) :
     sel \in ClickedSelectors, n \in (0..MaxClicks) \cup {GeneratedDeadClicks}}

DeadClicksOnly == {"deadClicks"}

NextDeadClicks ==
  \/ \E a \in FirstCall : AnalyzeCall(a)
  \/ \E a \in FirstCall, d \in DeadClicksOnly : DetectorDone(a, d)

SpecDeadClicks == InitLogs(DeadLogs) /\ [][NextDeadClicks]_vars

\* n sessions that scroll /pricing at 0. The first q of them click it gap ms
\* later, or not at all when gap is 0; the others click it one ms after
\* maxInteractionTime. With docs, every session also scrolls /docs a minute
\* later.
ExitLog(n, q, gap, docs) ==
  LogOf([i \in 1..n |-> Ev(i, "/pricing", "scroll", NullSel, 40, 0)]
        \o [i \in 1..(IF gap = 0 THEN 0 ELSE q) |->
              Ev(i, "/pricing", "click", Button, NoDepth, gap)]
        \o [i \in 1..(n - q) |->
              Ev(q + i, "/pricing", "click", Button, NoDepth, MaxInteractionTime + 1)]
        \o [i \in 1..(IF docs THEN n ELSE 0) |->
              Ev(i, "/docs", "scroll", NullSel, 40, 60000)])

\* Small pages, and the pages at the default thresholds: one session short of
\* minSessions, just over one half, exactly one half and under one half of
\* quick exits, and 12 out of 15.
ExitSizes ==
  {<<n, q>> : n \in 0..MaxSessions, q \in 0..MaxSessions} \cup
  {<<MinSessionsExit - 1, MinSessionsExit - 1>>, <<5, 3>>, <<6, 3>>, <<5, 2>>, <<15, 12>>}

QuickGaps == {0, 2000, MaxInteractionTime}

ExitLogs ==
  {ExitLog(z[1], z[2], gap, docs) :
     z \in {y \in ExitSizes : y[2] <= y[1]}, gap \in QuickGaps, docs \in BOOLEAN}

ExitUpdates ==
  {<<"highExitRate", "minSessions", 2>>,
   <<"highExitRate", "maxInteractionTime", 2000>>}

HighExitRateOnly == {"highExitRate"}

NextHighExitRate ==
  \/ \E u \in ExitUpdates : UpdateThreshold(u)
  \/ \E a \in FirstCall : AnalyzeCall(a)
  \/ \E a \in FirstCall, d \in HighExitRateOnly : DetectorDone(a, d)

SpecHighExitRate == InitLogs(ExitLogs) /\ [][NextHighExitRate]_vars

\* generateTestData, Test Case 5: 15 sessions scroll /pricing to depth d1, 240 s
\* apart; the first 12 of them scroll it again, to depth d2, 2000 ms later.
\* With normal, the 10 sessions of /homepage follow: a scroll and a click
\* 5000 ms later.
PricingSessions == 15
PricingTwoEvents == 12
PricingGap == 2000
NormalSessions == 10
NormalGap == 5000

PricingLog(d1, d2, normal) ==
  LogOf([k \in 1..(PricingSessions + PricingTwoEvents) |->
           IF k <= PricingSessions
           THEN Ev(k, "/pricing", "scroll", NullSel, d1, 240000 * (k - 1))
           ELSE Ev(k - PricingSessions, "/pricing", "scroll", NullSel, d2,
                   240000 * (k - PricingSessions - 1) + PricingGap)]
        \o [k \in 1..(IF normal THEN 2 * NormalSessions ELSE 0) |->
              IF k % 2 = 1
              THEN Ev(100 + (k + 1) \div 2, "/homepage", "scroll", NullSel, 80,
                      300000 * ((k - 1) \div 2))
              ELSE Ev(100 + k \div 2, "/homepage", "click", <<"a">>, NoDepth,
                      300000 * ((k - 1) \div 2) + NormalGap)])

\* Math.random() * 10 and Math.random() * 15, in whole numbers
PricingDepths1 == 0..9
PricingDepths2 == 0..14

PricingLogs ==
  {PricingLog(d1, d2, normal) :
     d1 \in PricingDepths1, d2 \in PricingDepths2, normal \in BOOLEAN}

NextPricing ==
  \/ \E a \in FirstCall : AnalyzeCall(a)
  \/ \E a \in FirstCall, d \in HighExitRateOnly : DetectorDone(a, d)

SpecPricing == InitLogs(PricingLogs) /\ [][NextPricing]_vars

\* n sessions that scroll /blog-post (generateTestData: 20 sessions, depths
\* under 25): the first to depth d1, the others to depth d2. With again, the
\* first session scrolls to d1 a second time. Two more sessions are on the
\* page without a depth: one clicks, one sends a scroll event of depth null.
ScrollLog(n, d1, d2, again) ==
  LogOf([i \in 1..n |->
           Ev(i, "/blog-post", "scroll", NullSel, IF i = 1 THEN d1 ELSE d2, 120000 * i)]
        \o (IF again /\ n >= 1
            THEN <<Ev(1, "/blog-post", "scroll", NullSel, d1, 500)>> ELSE <<>>)
        \o <<Ev(n + 1, "/blog-post", "click", Button, NoDepth, 0),
             Ev(n + 2, "/blog-post", "scroll", NullSel, NoDepth, 0)>>)

GeneratedScrollSessions == 20

ScrollSizes ==
  (0..MaxSessions) \cup {MinSessionsScroll - 1, MinSessionsScroll, GeneratedScrollSessions}

FirstDepths == {0, 24, MaxScrollDepth, 90}
OtherDepths == {24, MaxScrollDepth - 1, MaxScrollDepth}

ScrollLogs ==
  {ScrollLog(n, d1, d2, again) :
     n \in ScrollSizes, d1 \in FirstDepths, d2 \in OtherDepths, again \in BOOLEAN}

ScrollUpdates ==
  {<<"lowScrollDepth", "minSessions", 2>>,
   <<"lowScrollDepth", "maxScrollDepth", 25>>}

LowScrollDepthOnly == {"lowScrollDepth"}

NextLowScrollDepth ==
  \/ \E u \in ScrollUpdates : UpdateThreshold(u)
  \/ \E a \in FirstCall : AnalyzeCall(a)
  \/ \E a \in FirstCall, d \in LowScrollDepthOnly : DetectorDone(a, d)

SpecLowScrollDepth == InitLogs(ScrollLogs) /\ [][NextLowScrollDepth]_vars

\* ------------------------------------------------------------------ feedback
\* POST /rules/feedback. An id the body lacks is <<>>.
FeedbackValid(body) ==
  /\ body.issueId # <<>>
  /\ body.suggestionId # <<>>
  /\ body.action \in {"accept", "reject"}

\* Variant: a rejected issue's page is taken out of the event log.
rulesFeedbackDropsRejected(t, rs, clients, body) ==
  [table |-> IF FeedbackValid(body) /\ body.action = "reject"
             THEN SelectSeq(t, LAMBDA r : r.ev.pageUrl # body.issueId[3]) ELSE t,
   rules |-> rs, clients |-> clients,
   resp |-> IF FeedbackValid(body) THEN "ok" ELSE "400"]

\* The handler: 400 for an invalid payload, else a console.log and status ok.
\* It holds no reference to the database, the rules or the registry.
rulesFeedback(t, rs, clients, body) ==
  [table |-> t, rules |-> rs, clients |-> clients,
   resp |-> IF FeedbackValid(body) THEN "ok" ELSE "400"]

\* The issues a client has been shown: those of the answers received.
ShownIssues == UNION {ra[a].value : a \in {c \in Calls : ra[c].resp = "json"}}

\* Bodies a client posts: about a suggestion of an issue it was shown, about an
\* issue that no longer exists, with an action that is neither, without an id.
FeedbackBodies ==
  {[issueId |-> i.id, suggestionId |-> i.suggestions[1].id, action |-> act] :
     i \in ShownIssues, act \in {"accept", "reject"}}
  \cup {[issueId |-> <<"rageClicks", 0, "/gone", Button>>,
         suggestionId |-> <<"suggestion", "rageClicks", 0>>, action |-> "reject"],
        [issueId |-> <<"rageClicks", 0, "/gone", Button>>,
         suggestionId |-> <<"suggestion", "rageClicks", 0>>, action |-> "later"],
        [issueId |-> <<>>, suggestionId |-> <<"suggestion", "rageClicks", 0>>,
         action |-> "accept"]}

Feedback(body) ==
  /\ Len(fb) < MaxFeedback
  /\ LET r == rulesFeedback(table, rules, sseClients, body)
     IN /\ table' = r.table
        /\ rules' = r.rules
        /\ sseClients' = r.clients
        /\ fb' = Append(fb, [action |-> body.action, resp |-> r.resp,
                             shown |-> \E i \in ShownIssues : i.id = body.issueId])
  /\ UNCHANGED <<req, txOpen, txOwner, dbQueue, locked, stmt, faults, rd,
                 conn, written, pubs, now, pick, met, ra, upd, posted, snip>>

FeedbackLogs == {SeedSmall}

NextFeedback ==
  \/ \E a \in Calls : AnalyzeCall(a)
  \/ \E a \in Calls, d \in RuleIds : DetectorDone(a, d)
  \/ \E body \in FeedbackBodies : Feedback(body)
  \/ \E l \in Listeners : Connect(l)

SpecFeedback == InitLogs(FeedbackLogs) /\ [][NextFeedback]_vars

\* --------------------------------------------------------------- ingestion
\* Events as the snippet builds them, and events other clients may post.
Sid == <<"s", "1">>
PageC == <<"/", "c">>

SnippetClick ==
  RawEvent(Str(Sid), Str(PageC), Str(Click), Str(Button), Num(10), Num(20), Null, Num(1000))
SnippetScroll ==
  RawEvent(Str(Sid), Str(PageC), Str(Scroll), Null, Null, Null, Num(40), Num(2000))
BareClick ==
  RawEvent(Str(Sid), Str(PageC), Str(Click), Absent, Absent, Absent, Absent, Num(1000))
ClickWithDepth == [SnippetClick EXCEPT !.scrollDepth = Num(55)]
ScrollWithTarget ==
  [SnippetScroll EXCEPT !.elementSelector = Str(Button), !.clickX = Num(10),
                        !.clickY = Num(20)]

\* Events the schema refuses.
MalformedEvents ==
  {[SnippetClick EXCEPT !.sessionId = Absent],
   [SnippetClick EXCEPT !.pageUrl = Absent],
   [SnippetClick EXCEPT !.eventType = Absent],
   [SnippetClick EXCEPT !.timestamp = Absent],
   [SnippetClick EXCEPT !.eventType = Str(<<"h", "o", "v", "e", "r">>)],
   [SnippetClick EXCEPT !.sessionId = Str(<<>>)],
   [SnippetClick EXCEPT !.sessionId = Num(7)],
   [SnippetClick EXCEPT !.timestamp = Str(<<"1">>)],
   [SnippetScroll EXCEPT !.scrollDepth = Str(<<"4", "0">>)],
   [SnippetScroll EXCEPT !.timestamp = Null]}

AcceptedEvents == {SnippetClick, SnippetScroll, BareClick, ClickWithDepth, ScrollWithTarget}

\* Bodies of one event, of no event, without events, and of two events.
PostedBodies ==
  {Body(<<e>>) : e \in AcceptedEvents \cup MalformedEvents}
  \cup {Body(<<>>), BodyWithoutEvents}
  \cup {Body(<<SnippetClick, e>>) : e \in {SnippetScroll} \cup MalformedEvents}

LaterBodies == {Body(<<SnippetScroll>>), Body(<<>>)}

NextIngest ==
  \/ \E b \in Batches : PostBody(b, IF b = 1 THEN PostedBodies ELSE LaterBodies)
  \/ \E s \in Stmts : PrepareDone(s)
  \/ \E b \in Batches : InsertRow(b)
  \/ \E b \in Batches : Begin(b)
  \/ \E b \in Batches : Commit(b)
  \/ \E l \in Listeners : Connect(l)

SpecIngest == Init /\ [][NextIngest]_vars

\* ------------------------------------------------------- the log as a whole
\* Every kind of operation next to the ingestion of batches of one event whose
\* COMMIT may fail: one metrics query, one detector, one threshold update and
\* the rejection of a suggestion of an issue of /checkout.
OneMetric == {"totalEvents"}

RejectCheckout ==
  {[issueId |-> <<"rageClicks", 0, "/checkout", Button>>,
    suggestionId |-> <<"suggestion", "rageClicks", 0>>, action |-> "reject"]}

NextLog ==
  \/ \E b \in Batches : PostEvents(b, OneEvent)
  \/ \E s \in Stmts : PrepareDone(s)
  \/ \E b \in Batches : InsertRow(b)
  \/ \E b \in Batches : Begin(b)
  \/ \E b \in Batches : Commit(b)
  \/ \E b \in Batches : CommitFails(b)
  \/ MetricsCall
  \/ \E k \in OneMetric : MetricsRead(k)
  \/ \E a \in FirstCall : AnalyzeCall(a)
  \/ \E a \in FirstCall, d \in RageClicksOnly : DetectorDone(a, d)
  \/ \E u \in LowerScrollDepth : UpdateThreshold(u)
  \/ \E body \in RejectCheckout : Feedback(body)

SpecLog == Init /\ [][NextLog]_vars

\* ----------------------------------------- updates while an analysis runs
\* A log on which each rule flags something under the default thresholds:
\* /signup (shallow scrolls, quick exits, a button one session in fourteen
\* clicks), two sessions with three clicks 500 ms apart on the button of
\* /checkout, five sessions clicking the div of /product.
AtCallLog ==
  LogOf([k \in 1..Len(SeedMidRate) |-> SeedMidRate[k].ev]
        \o [k \in 1..11 |-> SeedSmall[k].ev])

\* One update for each rule.
AtCallUpdates ==
  {<<"lowClickRate", "minClickRate", <<10, 100>>>>,
   <<"lowScrollDepth", "maxScrollDepth", 5>>,
   <<"rageClicks", "clicksInWindow", 4>>,
   <<"deadClicks", "minClicksOnNonInteractive", 6>>,
   <<"highExitRate", "minSessions", 20>>}

\* One analyzeAllRules call among updateRuleThreshold calls: before it is
\* made, while its queries are pending and after they have executed.
NextAtCall ==
  \/ \E u \in AtCallUpdates : UpdateThreshold(u)
  \/ \E a \in FirstCall : AnalyzeCall(a)
  \/ \E a \in FirstCall, d \in RuleIds : DetectorDone(a, d)

SpecAtCall == InitLogs({AtCallLog}) /\ [][NextAtCall]_vars

\* --------------------------------------------- one selector on two pages
\* n sessions that each click the submit button c times on /checkout and then
\* d times on /cart, gap ms apart: the two pages show the same button.
CrossPageLog(n, c, d, gap) ==
  LogOf([i \in 1..(n * (c + d)) |->
           Ev(1 + ((i - 1) \div (c + d)),
              IF (i - 1) % (c + d) < c THEN "/checkout" ELSE "/cart",
              "click", Button, NoDepth,
              300000 * ((i - 1) \div (c + d)) + gap * ((i - 1) % (c + d)))])

CrossPageClicks == 0..3

CrossPageGaps == {250, 500, 1001}

CrossPageLogs ==
  {CrossPageLog(n, c, d, gap) :
     n \in 0..MaxSessions, c \in CrossPageClicks, d \in CrossPageClicks,
     gap \in CrossPageGaps}

SpecCrossPage == InitLogs(CrossPageLogs) /\ [][NextRageClicks]_vars

\* ------------------------------------------------- the generated data set
\* generateTestData's events, with timestamps counted from baseTimestamp and
\* whole numbers for Math.random(): 50 sessions scroll /landing-page and two
\* of them click its button, 20 sessions scroll /blog-post, 3 sessions click
\* the button of /checkout 5 times, 8 sessions click the image of
\* /product-page, 15 sessions scroll /pricing and 12 of them scroll again, and
\* 10 sessions scroll /homepage to depth h and click its link.
LandingSessions == 50
LandingClicks == 2
RageSessionsGenerated == 3
RageClicksGenerated == 5
NavLink == <<"a", ".", "n", "a", "v">>

GeneratedLog(h) ==
  LogOf([i \in 1..LandingSessions |->
           Ev(1000 + i, "/landing-page", "scroll", NullSel, 60, 60000 * (i - 1))]
        \o [i \in 1..LandingClicks |->
              Ev(1000 + i, "/landing-page", "click", Button, NoDepth,
                 60000 * (i - 1) + 30000)]
        \o [i \in 1..GeneratedScrollSessions |->
              Ev(2000 + i, "/blog-post", "scroll", NullSel, 12, 120000 * (i - 1))]
        \o [i \in 1..(RageSessionsGenerated * RageClicksGenerated) |->
              Ev(3000 + 1 + ((i - 1) \div RageClicksGenerated), "/checkout", "click",
                 Button, NoDepth,
                 1000000 + 300000 * ((i - 1) \div RageClicksGenerated)
                   + 500 * ((i - 1) % RageClicksGenerated))]
        \o [i \in 1..GeneratedDeadClicks |->
              Ev(4000 + i, "/product-page", "click", DivImg, NoDepth, 180000 * (i - 1))]
        \o [k \in 1..(PricingSessions + PricingTwoEvents) |->
              IF k <= PricingSessions
              THEN Ev(5000 + k, "/pricing", "scroll", NullSel, 5, 240000 * (k - 1))
              ELSE Ev(5000 + k - PricingSessions, "/pricing", "scroll", NullSel, 7,
                      240000 * (k - PricingSessions - 1) + PricingGap)]
        \o [k \in 1..(2 * NormalSessions) |->
              IF k % 2 = 1
              THEN Ev(6000 + (k + 1) \div 2, "/homepage", "scroll", NullSel, h,
                      300000 * ((k - 1) \div 2))
              ELSE Ev(6000 + k \div 2, "/homepage", "click", NavLink, NoDepth,
                      300000 * ((k - 1) \div 2) + NormalGap)])

\* Math.random() * 40 + 60
HomepageDepths == {60, 70, 80, 90, 99}

GeneratedLogs == {GeneratedLog(h) : h \in HomepageDepths}

NextGenerated ==
  \/ \E a \in FirstCall : AnalyzeCall(a)
  \/ \E a \in FirstCall, d \in RuleIds : DetectorDone(a, d)

SpecGenerated == InitLogs(GeneratedLogs) /\ [][NextGenerated]_vars

\* ---------------------------------------------------- the snippet's handlers
ServerIdle ==
  UNCHANGED <<req, storeVars, rd, sseVars, now, rules, pick, met, ra, upd, fb, posted>>

\* The click listener.
SnippetOnClick ==
  /\ snip.captured < MaxCaptured
  /\ snip' = enqueue([snip EXCEPT !.captured = @ + 1], snip.captured + 1)
  /\ ServerIdle

\* The scroll listener: it returns when the last captured scroll is less than
\* SCROLL_THROTTLE ms old.
SnippetOnScroll ==
  /\ snip.captured < MaxCaptured
  /\ snip' = IF snip.clock - snip.lastScrollEventTs < SCROLL_THROTTLE THEN snip
             ELSE enqueue([snip EXCEPT !.lastScrollEventTs = snip.clock,
                                       !.captured = @ + 1],
                          snip.captured + 1)
  /\ ServerIdle

\* setInterval(flush, FLUSH_INTERVAL): the timer fires when it is due, or later.
SnippetOnTimer ==
  /\ snip.clock >= snip.due
  /\ snip' = flush([snip EXCEPT !.due = @ + FLUSH_INTERVAL])
  /\ ServerIdle

\* The beforeunload listener.
SnippetOnUnload ==
  /\ snip' = flush(snip)
  /\ ServerIdle

\* Time passes; the timer is at most one interval late.
SnippetClock ==
  /\ snip.clock < LoadedAt + ClockStep * MaxHalfSeconds
  /\ snip.clock + ClockStep < snip.due + FLUSH_INTERVAL
  /\ snip' = [snip EXCEPT !.clock = @ + ClockStep]
  /\ ServerIdle

NextSnippet ==
  \/ SnippetOnClick
  \/ SnippetOnScroll
  \/ SnippetOnTimer
  \/ SnippetOnUnload
  \/ SnippetClock

SpecSnippet == Init /\ [][NextSnippet]_vars

\* ================================================================ claims
Done(r) == rd[r].st = "done"

\* C1: every read issued after an insertEvents call of N events has settled
\* sees either all N events of the batch or none of them.
C1_InsertBatchAllOrNothing ==
  \A r \in Reads : Done(r) =>
    \A b \in rd[r].after : rd[r].got[b] \in {0, req[b].n}

\* C2: when the write of a row or the commit of a batch fails, insertEvents
\* rejects and no row of the batch is visible once the call has settled.
WriteFailed(b) == req[b].rowErr # {} \/ req[b].promise = "rejected"

C2_FailedInsertLeavesNoRows ==
  \A b \in Batches : (Settled(b) /\ WriteFailed(b)) =>
    (req[b].promise = "rejected" /\ CountOf(table, b) = 0)

\* C3: when two insertEvents calls are in flight at the same time, every row of
\* either batch is written inside the transaction that batch itself began.
C3_BatchesAreTheirOwnTransactions ==
  \A k \in 1..Len(table) :
    req[table[k].batch].overlap => table[k].inTx = table[k].batch

\* C4: a read returns rows of a batch only after the batch has committed, and
\* then all of them.
C4_ReadsSeeOnlyCommittedBatches ==
  \A r \in Reads : Done(r) =>
    \A b \in Batches : rd[r].got[b] > 0 =>
      (b \in rd[r].at /\ rd[r].got[b] = req[b].n)

\* C5: the handler publishes exactly once for a batch whose insert succeeded
\* (every event of it stored and committed) and never for a batch that failed
\* validation or whose insert failed.
InsertSucceeded(b) ==
  /\ req[b].promise = "resolved"
  /\ req[b].rowErr = {}
  /\ CountOf(table, b) = req[b].n

C5_PublishIffInsertSucceeded ==
  \A b \in Batches :
    /\ req[b].st # "done" => req[b].published = 0
    /\ req[b].st = "done" =>
         req[b].published = IF req[b].resp = "ok" /\ InsertSucceeded(b) THEN 1 ELSE 0

\* C6: what was written to a listener, the ping aside, is the sequence of the
\* publish calls made between its registration and its close, in publish order.
Published(w) == SelectSeq(w, LAMBDA x : x.type = "metrics_update")

Window(l) ==
  SubSeq(pubs, conn[l].regAt + 1,
         IF conn[l].st = "closed" THEN conn[l].closeAt ELSE Len(pubs))

C6_ListenerSeesItsPublishesInOrder ==
  \A l \in Listeners :
    IF conn[l].st = "new" THEN written[l] = <<>>
    ELSE Published(written[l]) = Window(l)

\* a listener that registered after the first publish has been sent a later
\* one, while the delivery to another listener failed
C6_Witness ==
  \E l, k \in Listeners :
    /\ l # k
    /\ conn[l].regAt >= 1
    /\ Len(Published(written[l])) >= 1
    /\ conn[k].failed >= 1

\* C7: the registry gains a listener only at its registration and loses it only
\* at its own close; a publish leaves the registry as it is, also when a
\* delivery fails; nothing is written to a listener after its close.
C7_RegistryChangesOnlyOnConnectAndClose ==
  [][/\ \A l \in Listeners :
          (l \in sseClients' /\ l \notin sseClients) =>
            (conn[l].st = "new" /\ conn'[l].st = "open")
     /\ \A l \in Listeners :
          (l \in sseClients /\ l \notin sseClients') =>
            (conn[l].st \in {"open", "broken"} /\ conn'[l].st = "closed")
     /\ pubs' # pubs => sseClients' = sseClients
     /\ \A l \in Listeners : conn[l].st = "closed" => written'[l] = written[l]
    ]_vars

\* a delivery to a registered listener has failed and it is still registered,
\* and a publish was made after another listener's close
C7_Witness ==
  \E l, k \in Listeners :
    /\ conn[l].failed >= 1
    /\ l \in sseClients
    /\ conn[k].st = "closed"
    /\ Len(pubs) > conn[k].closeAt

\* C8: getAggregatedMetrics resolves only when each of its five reads has
\* succeeded, and then with the rows each of them returned; when a read has
\* failed it is rejected; it settles at most once.
C8_MetricsAllOrNothing ==
  /\ met.promise = "resolved" =>
       \A k \in MetricKeys : met.q[k] = "ok" /\ met.value[k] = met.ret[k]
  /\ (\E k \in MetricKeys : met.q[k] = "err") =>
       (met.promise = "rejected" /\ met.resp = "500")
  /\ met.settles <= 1

\* two reads have failed, the first of them after another read had succeeded,
\* and all five callbacks have run
C8_Witness ==
  /\ met.promise = "rejected"
  /\ met.rejects = 2
  /\ met.completed = 3
  /\ \A k \in MetricKeys : met.q[k] \in {"ok", "err"}
  /\ met.ret["totalEvents"] # {[count |-> 0]}

\* C9: analyzeAllRules is rejected, and answers no issue, when the read of a
\* detector has failed; it resolves only when all five detectors succeeded, and
\* then with the issues of all five.
C9_AnalyzeAllOrNothing ==
  \A a \in Calls :
    /\ (\E d \in RuleIds : ra[a].det[d] = "err") =>
         (ra[a].promise = "rejected" /\ ra[a].value = {} /\ ra[a].resp = "500")
    /\ ra[a].promise = "resolved" =>
         /\ \A d \in RuleIds : ra[a].det[d] = "ok"
         /\ ra[a].value = WithSuggestions(UNION {ra[a].ret[d] : d \in RuleIds})

\* a detector has failed after other detectors had found issues, and all five
\* have completed
C9_Witness ==
  \E a \in Calls :
    /\ AllDone(a)
    /\ ra[a].det["rageClicks"] = "err"
    /\ ra[a].ret["deadClicks"] # {}
    /\ ra[a].ret["highExitRate"] # {}
    /\ ra[a].promise = "rejected"

\* C10: two analyzeAllRules calls with no row written from the start of the
\* first to the end of the second flag the same (ruleId, pageUrl,
\* elementSelector) with the same metrics.
Flagged(issues) ==
  {[ruleId |-> i.ruleId, pageUrl |-> i.pageUrl,
    elementSelector |-> i.elementSelector, metrics |-> i.metrics] : i \in issues}

C10_AnalyzeIdempotent ==
  \A a, c \in Calls :
    (/\ a < c
     /\ ra[a].promise = "resolved"
     /\ ra[c].promise = "resolved"
     /\ ra[a].v0 = ra[c].v1) =>
      Flagged(ra[a].value) = Flagged(ra[c].value)

\* C10, amended: two analyzeAllRules calls made under the same thresholds, with
\* no row written from the start of the first to the end of the second, flag
\* the same (ruleId, pageUrl, elementSelector) with the same metrics.
C10_AnalyzeIdempotentSameThresholds ==
  \A a, c \in Calls :
    (/\ a < c
     /\ ra[a].promise = "resolved"
     /\ ra[c].promise = "resolved"
     /\ ra[a].v0 = ra[c].v1
     /\ ra[a].th = ra[c].th) =>
      Flagged(ra[a].value) = Flagged(ra[c].value)

\* both calls have resolved on the same, unchanged log and under the same
\* thresholds, with issues of three rules or more, and their issue ids differ
C10_Witness ==
  /\ ra[1].promise = "resolved"
  /\ ra[2].promise = "resolved"
  /\ ra[1].v0 = ra[2].v1
  /\ ra[1].th = ra[2].th
  /\ Cardinality({i.ruleId : i \in ra[1].value}) >= 3
  /\ ra[1].value # ra[2].value

\* C11: an updateRuleThreshold call that names no rule, or no threshold of the
\* rule it names, returns false, does not throw and leaves the rules as they
\* were.
IsThreshold(ruleId, key) ==
  ruleId \in RuleIds /\ key \in DOMAIN DefaultRules[ruleId]

C11_UnknownUpdateChangesNothing ==
  [][(upd'.ret # "none" /\ ~IsThreshold(upd'.ruleId, upd'.key)) =>
       (upd'.ret = "false" /\ rules' = rules)]_vars

\* C12: an updateRuleThreshold call on a threshold of a rule that returns true
\* changes that threshold and nothing else; an analyzeAllRules call made after
\* it takes the new value; the low click rate detector then flags the (page,
\* selector) whose page has minPageViews sessions or more and whose click rate
\* is below the value in force at the call, and no other.
SessionsOn(t, p) ==
  {t[i].ev.sessionId : i \in {j \in 1..Len(t) : t[j].ev.pageUrl = p}}

Clickers(t, p, sel) ==
  {t[i].ev.sessionId :
     i \in {j \in 1..Len(t) : /\ t[j].ev.eventType = "click"
                              /\ t[j].ev.pageUrl = p
                              /\ t[j].ev.elementSelector = sel}}

ClickedPairs(t) ==
  {<<t[i].ev.pageUrl, t[i].ev.elementSelector>> :
     i \in {j \in 1..Len(t) : /\ t[j].ev.eventType = "click"
                              /\ t[j].ev.elementSelector \notin {NullSel, <<>>}}}

FlaggedPairs(issues) == {<<i.pageUrl, i.elementSelector>> : i \in issues}

LowClickRateOf(t, th) ==
  {pr \in ClickedPairs(t) :
     /\ Cardinality(SessionsOn(t, pr[1])) >= th.minPageViews
     /\ Cardinality(Clickers(t, pr[1], pr[2])) * th.minClickRate[2]
          < th.minClickRate[1] * Cardinality(SessionsOn(t, pr[1]))}

C12_UpdateTakesEffect ==
  /\ [][/\ (/\ upd'.ret = "true"
            /\ IsThreshold(upd'.ruleId, upd'.key)
            /\ (upd' # upd \/ rules' # rules)) =>
             rules' = [rules EXCEPT ![upd'.ruleId][upd'.key] = upd'.value]
        /\ \A a \in Calls :
             (/\ ra[a].st = "none"
              /\ ra'[a].st = "called"
              /\ upd.ret = "true"
              /\ IsThreshold(upd.ruleId, upd.key)) =>
               ra'[a].th[upd.ruleId][upd.key] = upd.value]_vars
  /\ [](\A a \in Calls :
          ra[a].det["lowClickRate"] = "ok" =>
            FlaggedPairs(ra[a].ret["lowClickRate"])
              = LowClickRateOf(table, ra[a].th.lowClickRate))

\* minClickRate was raised from 5/100 to 10/100 between two analyses of the
\* same log: the button of /signup, clicked by one session in fourteen, was
\* not flagged by the first and is flagged by the second
C12_Witness ==
  /\ ra[1].det["lowClickRate"] = "ok"
  /\ ra[2].det["lowClickRate"] = "ok"
  /\ ra[1].th.lowClickRate.minClickRate = <<5, 100>>
  /\ ra[2].th.lowClickRate.minClickRate = <<10, 100>>
  /\ upd = [ruleId |-> "lowClickRate", key |-> "minClickRate",
            value |-> <<10, 100>>, ret |-> "true"]
  /\ <<"/signup", Button>> \notin FlaggedPairs(ra[1].ret["lowClickRate"])
  /\ <<"/signup", Button>> \in FlaggedPairs(ra[2].ret["lowClickRate"])

\* C13: the low click rate detector flags a (page, selector) if and only if
\* the page has minPageViews distinct sessions or more and the distinct
\* sessions that clicked the selector on the page, divided by the distinct
\* sessions of the page, are less than minClickRate; the issue reports that
\* rate.
C13_LowClickRateFormula ==
  \A a \in FirstCall :
    ra[a].det["lowClickRate"] = "ok" =>
      /\ FlaggedPairs(ra[a].ret["lowClickRate"])
           = {pr \in ClickedPairs(table) :
                /\ Cardinality(SessionsOn(table, pr[1])) >= ra[a].th.lowClickRate.minPageViews
                /\ Cardinality(Clickers(table, pr[1], pr[2]))
                     * ra[a].th.lowClickRate.minClickRate[2]
                     < ra[a].th.lowClickRate.minClickRate[1]
                       * Cardinality(SessionsOn(table, pr[1]))}
      /\ \A i \in ra[a].ret["lowClickRate"] :
           /\ i.metrics.clickRate
                = <<Cardinality(Clickers(table, i.pageUrl, i.elementSelector)),
                    Cardinality(SessionsOn(table, i.pageUrl))>>
           /\ Cardinality(SessionsOn(table, i.pageUrl)) # ra[a].th.lowClickRate.minPageViews - 1

\* with the default thresholds, the button that 2 sessions out of 50 have
\* clicked is flagged
C13_Witness ==
  /\ ra[1].det["lowClickRate"] = "ok"
  /\ ra[1].th = DefaultRules
  /\ Cardinality(SessionsOn(table, "/p")) = 50
  /\ Cardinality(Clickers(table, "/p", Button)) = 2
  /\ <<"/p", Button>> \in FlaggedPairs(ra[1].ret["lowClickRate"])

\* C14: a session is a rage session of a (page, selector) if and only if one of
\* its clicks on it has clicksInWindow clicks or more of the same session and
\* selector, itself included and each click counted once, from its timestamp
\* to timeWindow ms after it; the rage click detector flags a (page, selector)
\* if and only if minOccurrences sessions or more are rage sessions of it.
ClickRows(t) == {i \in 1..Len(t) : t[i].ev.eventType = "click"}

ClicksInWindowOf(t, c, window) ==
  {i \in ClickRows(t) :
     /\ t[i].ev.sessionId = t[c].ev.sessionId
     /\ t[i].ev.elementSelector = t[c].ev.elementSelector
     /\ t[i].ev.timestamp >= t[c].ev.timestamp
     /\ t[i].ev.timestamp <= t[c].ev.timestamp + window}

RageSessions(t, th, page, sel) ==
  {t[c].ev.sessionId :
     c \in {i \in ClickRows(t) :
              /\ t[i].ev.pageUrl = page
              /\ t[i].ev.elementSelector = sel
              /\ Cardinality(ClicksInWindowOf(t, i, th.timeWindow)) >= th.clicksInWindow}}

C14_RageClicksFormula ==
  \A a \in FirstCall :
    ra[a].det["rageClicks"] = "ok" =>
      FlaggedPairs(ra[a].ret["rageClicks"])
        = {pr \in {<<table[i].ev.pageUrl, table[i].ev.elementSelector>> :
                     i \in {j \in ClickRows(table) : table[j].ev.elementSelector # NullSel}} :
             Cardinality(RageSessions(table, ra[a].th.rageClicks, pr[1], pr[2]))
               >= ra[a].th.rageClicks.minOccurrences}

\* C15: the dead click detector flags a (page, selector) if and only if the
\* leading tag name of the selector is, letter case included, exactly one of
\* the non-interactive tags and the selector was clicked
\* minClicksOnNonInteractive times or more on the page.
TagEnds == {".", "#", "[", ":", " ", ">"}

TagOf(sel) ==
  LET ends == {i \in 1..Len(sel) : sel[i] \in TagEnds}
  IN IF ends = {} THEN sel
     ELSE SubSeq(sel, 1, (CHOOSE i \in ends : \A j \in ends : i <= j) - 1)

ClicksOn(t, page, sel) ==
  {i \in ClickRows(t) : t[i].ev.pageUrl = page /\ t[i].ev.elementSelector = sel}

C15_DeadClicksExactTag ==
  \A a \in FirstCall :
    ra[a].det["deadClicks"] = "ok" =>
      FlaggedPairs(ra[a].ret["deadClicks"])
        = {pr \in {<<table[i].ev.pageUrl, table[i].ev.elementSelector>> :
                     i \in {j \in ClickRows(table) : table[j].ev.elementSelector # NullSel}} :
             /\ TagOf(pr[2]) \in ra[a].th.deadClicks.nonInteractiveSelectors
             /\ Cardinality(ClicksOn(table, pr[1], pr[2]))
                  >= ra[a].th.deadClicks.minClicksOnNonInteractive}

\* C16: the high exit rate detector flags a page if and only if minSessions
\* sessions or more have an event on it and more than one half of them are
\* quick exits, a session being a quick exit of the page when no two of its
\* events on that page are more than maxInteractionTime ms apart; the issue
\* reports these two numbers.
EventsOn(t, p, sid) ==
  {i \in 1..Len(t) : t[i].ev.pageUrl = p /\ t[i].ev.sessionId = sid}

QuickExits(t, p, maxTime) ==
  {sid \in SessionsOn(t, p) :
     \A i, j \in EventsOn(t, p, sid) : t[i].ev.timestamp - t[j].ev.timestamp <= maxTime}

FlaggedPages(issues) == {i.pageUrl : i \in issues}

C17_PricingTwelveOfFifteen ==
  \A a \in FirstCall :
    ra[a].det["highExitRate"] = "ok" =>
      \E i \in ra[a].ret["highExitRate"] :
        /\ i.pageUrl = "/pricing"
        /\ i.metrics.sessions = 15
        /\ i.metrics.quickExitSessions = 12
        /\ 10 * i.metrics.exitRate[1] = 8 * i.metrics.exitRate[2]

\* C18: the low scroll depth detector flags a page if and only if minSessions
\* distinct sessions or more have a scroll event with a depth on it and the
\* mean depth of those scroll events is less than maxScrollDepth; the issue
\* reports that number of sessions and that mean.
DeepScrolls(t, p) ==
  {i \in 1..Len(t) : /\ t[i].ev.eventType = "scroll"
                     /\ t[i].ev.scrollDepth # NoDepth
                     /\ t[i].ev.pageUrl = p}

ScrollingSessions(t, p) == {t[i].ev.sessionId : i \in DeepScrolls(t, p)}

TotalDepth(t, p) ==
  LET upTo[k \in 0..Len(t)] ==
        IF k = 0 THEN 0
        ELSE upTo[k - 1] + (IF k \in DeepScrolls(t, p) THEN t[k].ev.scrollDepth ELSE 0)
  IN upTo[Len(t)]

C18_LowScrollDepthFormula ==
  \A a \in FirstCall :
    ra[a].det["lowScrollDepth"] = "ok" =>
      LET th == ra[a].th.lowScrollDepth
      IN /\ FlaggedPages(ra[a].ret["lowScrollDepth"])
              = {p \in {table[i].ev.pageUrl : i \in 1..Len(table)} :
                   /\ Cardinality(ScrollingSessions(table, p)) >= th.minSessions
                   /\ TotalDepth(table, p)
                        < th.maxScrollDepth * Cardinality(DeepScrolls(table, p))}
         /\ \A i \in ra[a].ret["lowScrollDepth"] :
              /\ i.metrics.sessions = Cardinality(ScrollingSessions(table, i.pageUrl))
              /\ i.metrics.sessions # th.minSessions - 1
              /\ i.metrics.avgScrollDepth
                   = <<TotalDepth(table, i.pageUrl),
                       Cardinality(DeepScrolls(table, i.pageUrl))>>

\* with the default thresholds, /blog-post with 20 scrolling sessions whose
\* depths are all below 25 is flagged
C18_Witness ==
  /\ ra[1].det["lowScrollDepth"] = "ok"
  /\ ra[1].th = DefaultRules
  /\ Cardinality(ScrollingSessions(table, "/blog-post")) = 20
  /\ \A i \in DeepScrolls(table, "/blog-post") : table[i].ev.scrollDepth < 25
  /\ "/blog-post" \in FlaggedPages(ra[1].ret["lowScrollDepth"])

\* C19: every issue of the answer of analyzeAllRules carries the first three
\* texts of the suggestion catalog of its rule, in the order of the catalog,
\* with the priorities high, medium and low, and the severity of its rule;
\* whatever the length of the array it is given, the slice returns its first
\* three entries (all of them when it has fewer) and never more than three.
PriorityAt(k) == CASE k = 1 -> "high" [] k = 2 -> "medium" [] OTHER -> "low"

SeverityOfRule(ruleId) ==
  CASE ruleId = "rageClicks" -> "high"
    [] ruleId = "lowScrollDepth" -> "low"
    [] OTHER -> "medium"

TextsOf(ruleId, n) == [k \in 1..n |-> <<ruleId, "text", k>>]

C19_FirstThreeSuggestions ==
  /\ \A a \in FirstCall :
       ra[a].promise = "resolved" =>
         \A i \in ra[a].value :
           /\ i.severity = SeverityOfRule(i.ruleId)
           /\ Len(i.suggestions) = 3
           /\ \A k \in 1..3 :
                /\ i.suggestions[k].text = Catalog(i.ruleId)[k]
                /\ i.suggestions[k].priority = PriorityAt(k)
  /\ \A r \in RuleIds, n \in 0..MaxCatalog :
       LET got == SuggestionsOf(TextsOf(r, n), r)
       IN /\ Len(got) <= 3
          /\ Len(got) = n \/ Len(got) = 3
          /\ \A k \in 1..Len(got) :
               got[k].text = TextsOf(r, n)[k] /\ got[k].priority = PriorityAt(k)

\* an answer of analyzeAllRules with issues of a high, a medium and a low
\* severity rule, each with its three suggestions
C19_Witness ==
  /\ ra[1].promise = "resolved"
  /\ \A sev \in {"high", "medium", "low"} :
       \E i \in ra[1].value : i.severity = sev /\ Len(i.suggestions) = 3
  /\ \E i \in ra[1].value : i.ruleId = "rageClicks" /\ i.severity = "high"

\* C20: a POST /rules/feedback request changes neither the event log nor the
\* thresholds of the rules nor the listener registry, and two analyzeAllRules
\* calls on one log flag the same (ruleId, pageUrl, elementSelector) with the
\* same metrics whatever feedback was posted before or between them, a
\* rejection of a suggestion of an issue of the first call included.
C20_FeedbackChangesNothing ==
  /\ [][fb' # fb =>
          (table' = table /\ rules' = rules /\ sseClients' = sseClients)]_vars
  /\ [](\A a, c \in Calls :
          (ra[a].promise = "resolved" /\ ra[c].promise = "resolved") =>
            Flagged(ra[a].value) = Flagged(ra[c].value))

\* a suggestion of an issue of the first answer was rejected while a listener
\* was registered, and the second call has resolved with that issue again
C20_Witness ==
  /\ ra[1].promise = "resolved"
  /\ ra[2].promise = "resolved"
  /\ ra[1].value # {}
  /\ sseClients # {}
  /\ \E k \in 1..Len(fb) :
       fb[k].action = "reject" /\ fb[k].resp = "ok" /\ fb[k].shown
  /\ \E k \in 1..Len(fb) : fb[k].resp = "400"

\* C21: a POST /events request whose body has no events, an empty events
\* array, an event without sessionId, pageUrl, eventType or timestamp, or an
\* event whose eventType is neither click nor scroll, is answered with an
\* error in the step that receives it; no statement is issued for it, no row
\* of it is ever in the table and nothing is published for it.
Lacks(e) ==
  \/ e.sessionId.t = "absent"
  \/ e.pageUrl.t = "absent"
  \/ e.eventType.t = "absent"
  \/ e.timestamp.t = "absent"
  \/ e.eventType.s \notin {Click, Scroll}

FailsValidation(body) ==
  \/ body.events.t = "absent"
  \/ body.events.items = <<>>
  \/ \E k \in 1..Len(body.events.items) : Lacks(body.events.items[k])

C21_InvalidBatchRejected ==
  /\ [][\A b \in Batches :
          (posted'[b] # posted[b] /\ FailsValidation(posted'[b])) =>
            /\ req'[b].resp = "400"
            /\ table' = table
            /\ pubs' = pubs
            /\ written' = written
            /\ <<dbQueue', locked', stmt'>> = <<dbQueue, locked, stmt>>]_vars
  /\ [](\A b \in Batches :
          (posted[b] # NoBody /\ FailsValidation(posted[b])) =>
            /\ req[b].resp = "400"
            /\ req[b].published = 0
            /\ CountOf(table, b) = 0
            /\ \A kind \in {"INS", "BEGIN", "COMMIT"} : stmt[<<kind, b>>].phase = "none")

\* a body with a well-formed and a malformed event was answered 400 and left
\* no row, while a later batch was committed and published to a listener
C21_Witness ==
  /\ FailsValidation(posted[1])
  /\ Len(posted[1].events.items) = 2
  /\ req[1].resp = "400"
  /\ CountOf(table, 1) = 0
  /\ req[2].resp = "ok"
  /\ CountOf(table, 2) = 1
  /\ Len(pubs) = 1
  /\ \E l \in Listeners : Len(written[l]) = 2

\* C22: every row written for a POST /events request holds a click event
\* without a scroll depth or a scroll event without an element selector and
\* click coordinates.
C22_StoredEventInvariant ==
  \A k \in 1..Len(table) :
    table[k].batch \in Batches =>
      /\ table[k].ev.eventType = "click" => table[k].ev.scrollDepth = NoDepth
      /\ table[k].ev.eventType = "scroll" =>
           /\ table[k].ev.elementSelector = NullSel
           /\ table[k].ev.clickX = NoCoord
           /\ table[k].ev.clickY = NoCoord

\* C23: the event log is append-only: every step leaves the committed rows of
\* the table in place with their ids and events and at most adds rows after
\* them; the ids of the rows grow along the table, a row written by a step
\* has an id greater than every id of the table before it, and the rows of a
\* batch are in the order of the batch.
Stored(t) == SelectSeq(t, LAMBDA r : r.durable)

RECURSIVE Flatten(_)
Flatten(batches) ==
  IF batches = <<>> THEN <<>> ELSE Head(batches) \o Flatten(Tail(batches))

CapturedSoFar(sn) == [k \in 1..sn.captured |-> k]

C24_SnippetBatching ==
  /\ [](Flatten(snip.sent) \o snip.queue = CapturedSoFar(snip))
  /\ [](Len(snip.queue) < 10)
  /\ [](\A k \in 1..Len(snip.sent) :
          Len(snip.sent[k]) >= 1 /\ Len(snip.sent[k]) <= 10)
  /\ [][(Len(snip.queue) = 9 /\ snip'.captured > snip.captured) =>
          /\ snip'.queue = <<>>
          /\ Len(snip'.sent) = Len(snip.sent) + 1
          /\ Len(snip'.sent[Len(snip'.sent)]) = 10]_vars
  /\ [][snip'.due # snip.due =>
          /\ snip'.queue = <<>>
          /\ snip'.captured = snip.captured
          /\ Flatten(snip'.sent) = CapturedSoFar(snip)
          /\ (snip.queue = <<>> => snip'.sent = snip.sent)]_vars

\* eleven events were captured: ten went out as one batch when the tenth was
\* captured, the eleventh went out alone when the timer fired
C24_Witness ==
  /\ snip.captured = 11
  /\ snip.sent = <<[k \in 1..10 |-> k], <<11>>>>
  /\ snip.queue = <<>>
  /\ snip.due > LoadedAt + FLUSH_INTERVAL
  /\ snip.lastScrollEventTs > 0

\* C25: POST /events answers ok only when every event of the batch is a
\* committed row of the table, and answers 500 only when none of them is a
\* row of the table.
C25_AnswerAgreesWithLog ==
  \A b \in Batches :
    /\ req[b].resp = "ok" => CountOf(Stored(table), b) = req[b].n
    /\ req[b].resp = "500" => CountOf(table, b) = 0

\* C26: an analyzeAllRules call takes the thresholds in force when it is
\* called, and each of its five detectors flags what these thresholds flag on
\* the log, whatever updateRuleThreshold calls run before its queries have
\* executed; a call made after an update takes the updated thresholds.
LowScrollDepthOf(t, th) ==
  {<<p, NoSel>> : p \in
     {q \in {t[i].ev.pageUrl : i \in 1..Len(t)} :
        /\ Cardinality(ScrollingSessions(t, q)) >= th.minSessions
        /\ TotalDepth(t, q) < th.maxScrollDepth * Cardinality(DeepScrolls(t, q))}}

HighExitRateOf(t, th) ==
  {<<p, NoSel>> : p \in
     {q \in {t[i].ev.pageUrl : i \in 1..Len(t)} :
        /\ Cardinality(SessionsOn(t, q)) >= th.minSessions
        /\ 2 * Cardinality(QuickExits(t, q, th.maxInteractionTime))
             > Cardinality(SessionsOn(t, q))}}

RageClicksOf(t, th) ==
  {pr \in ClickedPairs(t) :
     Cardinality(RageSessions(t, th, pr[1], pr[2])) >= th.minOccurrences}

DeadClicksOf(t, th) ==
  {pr \in ClickedPairs(t) :
     /\ TagOf(pr[2]) \in th.nonInteractiveSelectors
     /\ Cardinality(ClicksOn(t, pr[1], pr[2])) >= th.minClicksOnNonInteractive}

FlaggedBy(d, t, th) ==
  CASE d = "lowClickRate" -> LowClickRateOf(t, th.lowClickRate)
    [] d = "lowScrollDepth" -> LowScrollDepthOf(t, th.lowScrollDepth)
    [] d = "rageClicks" -> RageClicksOf(t, th.rageClicks)
    [] d = "deadClicks" -> DeadClicksOf(t, th.deadClicks)
    [] d = "highExitRate" -> HighExitRateOf(t, th.highExitRate)

C26_ThresholdsTakenAtCall ==
  /\ [][\A a \in Calls :
          /\ (ra[a].st = "none" /\ ra'[a].st = "called") => ra'[a].th = rules
          /\ ra[a].st = "called" => ra'[a].th = ra[a].th
          /\ rules' # rules => ra'[a] = ra[a]
          /\ \A d \in RuleIds :
               /\ (ra[a].det[d] = "pending" /\ ra'[a].det[d] = "ok") =>
                    FlaggedPairs(ra'[a].ret[d]) = FlaggedBy(d, table, ra[a].th)
               /\ ra[a].det[d] = "ok" => ra'[a].ret[d] = ra[a].ret[d]]_vars

\* two thresholds were updated before the call and three while its queries were
\* pending: the detectors of the first two flag what the updated thresholds
\* flag, the other three what the thresholds of the moment of the call flag,
\* and each of the three would flag something else with the thresholds in force
\* when the last query executed
C26_Witness ==
  /\ ra[1].promise = "resolved"
  /\ \A u \in AtCallUpdates : rules[u[1]][u[2]] = u[3]
  /\ \A d \in {"lowClickRate", "lowScrollDepth"} :
       /\ ra[1].th[d] = rules[d]
       /\ ra[1].th[d] # DefaultRules[d]
       /\ FlaggedPairs(ra[1].ret[d]) = FlaggedBy(d, table, rules)
       /\ FlaggedPairs(ra[1].ret[d]) # FlaggedBy(d, table, DefaultRules)
  /\ \A d \in {"rageClicks", "deadClicks", "highExitRate"} :
       /\ ra[1].th[d] = DefaultRules[d]
       /\ FlaggedPairs(ra[1].ret[d]) = FlaggedBy(d, table, DefaultRules)
       /\ FlaggedPairs(ra[1].ret[d]) # FlaggedBy(d, table, rules)

\* C27: for each (page, selector) the rage click detector flags, at least
\* minOccurrences sessions each have clicksInWindow clicks or more on that
\* selector on that very page within one time window; clicks on another page
\* do not count.
ClicksInWindowOnPage(t, c, window) ==
  {i \in ClicksInWindowOf(t, c, window) : t[i].ev.pageUrl = t[c].ev.pageUrl}

RageSessionsOnPage(t, th, page, sel) ==
  {t[c].ev.sessionId :
     c \in {i \in ClickRows(t) :
              /\ t[i].ev.pageUrl = page
              /\ t[i].ev.elementSelector = sel
              /\ Cardinality(ClicksInWindowOnPage(t, i, th.timeWindow))
                   >= th.clicksInWindow}}

C27_RageClicksOfOnePage ==
  \A a \in FirstCall :
    ra[a].det["rageClicks"] = "ok" =>
      \A pr \in FlaggedPairs(ra[a].ret["rageClicks"]) :
        Cardinality(RageSessionsOnPage(table, ra[a].th.rageClicks, pr[1], pr[2]))
          >= ra[a].th.rageClicks.minOccurrences

\* C28: on the generated data set, with the default thresholds, none of the
\* five detectors flags the page /homepage.
C28_HomepageNotFlagged ==
  \A a \in FirstCall :
    ra[a].th = DefaultRules =>
      \A d \in RuleIds :
        ra[a].det[d] = "ok" => \A i \in ra[a].ret[d] : i.pageUrl # "/homepage"

====
